---- MODULE Spec2Model ----
(***************************************************************************)
(* ShogiView: the KIF parser (parseKif) and the replay / navigation engine *)
(* of renderKif, src/src/kif-viewer.ts.                                    *)
(*                                                                         *)
(* Text.  A string is a sequence of characters and a character is a short  *)
(* ASCII name, because the notation is Japanese:                           *)
(*   "F1".."F9"  full-width digits  (JP_NUM_FULL)                          *)
(*   "K1".."K9"  kanji digits       (JP_NUM_KANJI)                         *)
(*   "0".."9"    ASCII digits       " " space     "IDSP" U+3000            *)
(*   "DOU" same-square marker       "SEP" full-width colon                 *)
(*   "HEN","BAKE" the variation keyword   "TE" its unit marker             *)
(*   "KAI","SHI" + "TE", "HYOU","JI", "SHO","KIKAN", "SUU" the characters  *)
(*   of the start-move keywords                                            *)
(*   "NARI" promotion   "NOT" + "NARI" declined promotion   "UTSU" drop    *)
(*   piece letters "FU" "KY" "KE" "GI" "KI" "KA" "HI" "GY" "OU" "TO" "UM"  *)
(*   "RY"; the promoted lance, knight and silver are written with two      *)
(*   characters, "NARI" then the piece letter                              *)
(*   direction glyphs "MIGI" "HIDARI" "SUGU" "AGARU" "HIKU" "YORU"         *)
(* A PieceKind is named "FU" .. "RY", with "NY" "NK" "NG" for the three    *)
(* two-character promoted kinds.  A text is the sequence of its lines.     *)
(*                                                                         *)
(* Objects.  A VariationLine is its index in `lines' (the root is 1), a    *)
(* ParsedMove is the pair <<line, position>>, a timer is a number.  An     *)
(* optional value is a sequence of length 0 (undefined) or 1.              *)
(***************************************************************************)
EXTENDS Integers, Sequences, FiniteSets, TLC

VARIABLES
    pc,                  \* "parsing" | "parsed" | "viewing" | "parseThrew"
    requestedInitialMove, \* renderKif: requestedInitialMove
    input,               \* the lines of the text parseKif has not read yet
    header,              \* parseKif: header
    lines,               \* parseKif: the VariationLine objects, root first
    contextStack,        \* parseKif: contextStack
    board,               \* renderKif: board
    hands,               \* renderKif: hands
    lastFrom,            \* renderKif: lastFrom
    lastTo,              \* renderKif: lastTo
    latestMove,          \* renderKif: latestMove
    currentLine,         \* renderKif: currentLine
    currentMoveIdx,      \* renderKif: currentMoveIdx
    lineState,           \* renderKif: lineState (WeakMap)
    availableVariations, \* renderKif: availableVariations
    isPlaying,           \* renderKif: isPlaying
    autoPlayIntervalId,  \* renderKif: autoPlayIntervalId
    timers,              \* the intervals armed in the window
    lastOp               \* the last handler that ran and how it ended

parserVars == <<input, header, lines, contextStack>>
replayVars == <<board, hands, lastFrom, lastTo, latestMove>>
cursorVars == <<currentLine, currentMoveIdx, lineState, availableVariations>>
playVars   == <<isPlaying, autoPlayIntervalId, timers>>
viewerVars == <<replayVars, cursorVars, playVars>>
vars       == <<pc, requestedInitialMove, parserVars, viewerVars, lastOp>>

-----------------------------------------------------------------------------
(* Bounds of the model.                                                    *)

\* Every text of at most MaxLines lines over InputLines is an input.
MaxLines == 2
\* goToMoveNumber is called with the numbers -1 .. MaxMoveNumber.
MaxMoveNumber == 4

-----------------------------------------------------------------------------
(* Strings.                                                                *)

None == <<>>
Some(x) == <<x>>
IsSome(o) == Len(o) > 0
Val(o) == o[1]

Min(a, b) == IF a < b THEN a ELSE b
Max(a, b) == IF a > b THEN a ELSE b

\* \s of a regular expression and the characters trim() removes.
Spaces == {" ", "IDSP"}
\* \d of a regular expression.
Digits == {"0", "1", "2", "3", "4", "5", "6", "7", "8", "9"}
IsSpace(c) == c \in Spaces
IsDigit(c) == c \in Digits

DigitValue(c) ==
    CASE c = "0" -> 0 [] c = "1" -> 1 [] c = "2" -> 2 [] c = "3" -> 3
      [] c = "4" -> 4 [] c = "5" -> 5 [] c = "6" -> 6 [] c = "7" -> 7
      [] c = "8" -> 8 [] c = "9" -> 9

\* parseInt(s, 10) of a string of ASCII digits.
RECURSIVE ParseInt(_)
ParseInt(s) ==
    IF Len(s) = 0 THEN 0
    ELSE 10 * ParseInt(SubSeq(s, 1, Len(s) - 1)) + DigitValue(s[Len(s)])

Slice(s, from) == SubSeq(s, from, Len(s))

RECURSIVE TrimStart(_)
TrimStart(s) ==
    IF Len(s) > 0 /\ IsSpace(s[1]) THEN TrimStart(Tail(s)) ELSE s

RECURSIVE TrimEnd(_)
TrimEnd(s) ==
    IF Len(s) > 0 /\ IsSpace(s[Len(s)])
    THEN TrimEnd(SubSeq(s, 1, Len(s) - 1)) ELSE s

Trim(s) == TrimStart(TrimEnd(s))

StartsWith(s, p) == Len(s) >= Len(p) /\ SubSeq(s, 1, Len(p)) = p
EndsWith(s, p) ==
    Len(s) >= Len(p) /\ SubSeq(s, Len(s) - Len(p) + 1, Len(s)) = p

Includes(s, c) == \E i \in 1..Len(s) : s[i] = c

\* The position of the first c in s at or after position i, 0 when none.
RECURSIVE IndexFrom(_, _, _)
IndexFrom(s, c, i) ==
    IF i > Len(s) THEN 0
    ELSE IF s[i] = c THEN i
    ELSE IndexFrom(s, c, i + 1)

\* s.split(c): the segments of s between the occurrences of c.
RECURSIVE Split(_, _)
Split(s, c) ==
    LET i == IndexFrom(s, c, 1)
    IN  IF i = 0 THEN <<s>>
        ELSE <<SubSeq(s, 1, i - 1)>> \o Split(Slice(s, i + 1), c)

\* The end of the run of characters of the class cls that starts at position
\* i (i - 1 when the run is empty): a greedy [cls]* of a regular expression.
RECURSIVE RunEnd(_, _, _)
RunEnd(s, i, cls) ==
    IF i <= Len(s) /\ s[i] \in cls THEN RunEnd(s, i + 1, cls) ELSE i - 1

\* s[i], or "" past either end (no character matches there).
At(s, i) == IF i \in 1..Len(s) THEN s[i] ELSE ""

-----------------------------------------------------------------------------
(* Types & helpers.                                                        *)

BoardSize == 9
Coords == 1..BoardSize

Sides == {"B", "W"}
PieceKinds == {"FU", "KY", "KE", "GI", "KI", "KA", "HI", "GY", "OU",
               "TO", "NY", "NK", "NG", "UM", "RY"}

JP_NUM_FULL == <<"F1", "F2", "F3", "F4", "F5", "F6", "F7", "F8", "F9">>
JP_NUM_KANJI == <<"K1", "K2", "K3", "K4", "K5", "K6", "K7", "K8", "K9">>

\* String.indexOf for one character, 0-based, -1 when absent.
IndexOf(s, c) == IndexFrom(s, c, 1) - 1

Thrown == [threw |-> TRUE, value |-> 0]
Returned(v) == [threw |-> FALSE, value |-> v]

\* A decoding that returns the index of a kanji numeral as it is.
jpDigitToNumKanjiFromZero(ch) ==
    LET fullIdx == IndexOf(JP_NUM_FULL, ch)
        kanjiIdx == IndexOf(JP_NUM_KANJI, ch)
    IN  IF fullIdx >= 0 THEN Returned(fullIdx + 1)
        ELSE IF kanjiIdx >= 0 THEN Returned(kanjiIdx)
        ELSE IF IsDigit(ch) /\ DigitValue(ch) >= 1 /\ DigitValue(ch) <= 9
             THEN Returned(DigitValue(ch))
        ELSE Thrown

jpDigitToNum(ch) ==
    LET fullIdx == IndexOf(JP_NUM_FULL, ch)
        kanjiIdx == IndexOf(JP_NUM_KANJI, ch)
    IN  IF fullIdx >= 0 THEN Returned(fullIdx + 1)
        ELSE IF kanjiIdx >= 0 THEN Returned(kanjiIdx + 1)
        ELSE IF IsDigit(ch) /\ DigitValue(ch) >= 1 /\ DigitValue(ch) <= 9
             THEN Returned(DigitValue(ch))
        ELSE Thrown

parseSquare(s) ==
    IF Len(s) < 2 THEN Thrown
    ELSE LET f == jpDigitToNum(s[1])
             r == jpDigitToNum(s[2])
         IN  IF f.threw \/ r.threw THEN Thrown
             ELSE Returned([f |-> f.value, r |-> r.value])

\* An empty cell of the board (null).
NoPiece == [side |-> "-", kind |-> "-"]

BackRank == <<"KY", "KE", "GI", "KI", "OU", "KI", "GI", "KE", "KY">>

\* board[r][f] is the cell the code addresses as board[r-1][f-1].
initialBoard ==
    [r \in Coords |-> [f \in Coords |->
        CASE r = 1 -> [kind |-> BackRank[f], side |-> "W"]
          [] r = 2 /\ f = 8 -> [kind |-> "HI", side |-> "W"]
          [] r = 2 /\ f = 2 -> [kind |-> "KA", side |-> "W"]
          [] r = 3 -> [kind |-> "FU", side |-> "W"]
          [] r = 7 -> [kind |-> "FU", side |-> "B"]
          [] r = 8 /\ f = 2 -> [kind |-> "HI", side |-> "B"]
          [] r = 8 /\ f = 8 -> [kind |-> "KA", side |-> "B"]
          [] r = 9 /\ f = 5 -> [kind |-> "GY", side |-> "B"]
          [] r = 9 /\ f # 5 -> [kind |-> BackRank[f], side |-> "B"]
          [] OTHER -> NoPiece]]

\* A promotion that turns the lance into a tokin.
promoteKindLanceToTokin(kind) ==
    CASE kind = "FU" -> "TO"
      [] kind = "KY" -> "TO"
      [] kind = "KE" -> "NK"
      [] kind = "GI" -> "NG"
      [] kind = "KA" -> "UM"
      [] kind = "HI" -> "RY"
      [] OTHER -> kind

promoteKind(kind) ==
    CASE kind = "FU" -> "TO"
      [] kind = "KY" -> "NY"
      [] kind = "KE" -> "NK"
      [] kind = "GI" -> "NG"
      [] kind = "KA" -> "UM"
      [] kind = "HI" -> "RY"
      [] OTHER -> kind

demoteKind(kind) ==
    CASE kind = "TO" -> "FU"
      [] kind = "NY" -> "KY"
      [] kind = "NK" -> "KE"
      [] kind = "NG" -> "GI"
      [] kind = "UM" -> "KA"
      [] kind = "RY" -> "HI"
      [] OTHER -> kind

PIECE_DIRECTIONS == {"MIGI", "HIDARI", "SUGU", "AGARU", "HIKU", "YORU"}

\* s.replace(PIECE_DIRECTIONS_RE, ''): the string without its direction glyphs.
RECURSIVE StripDirections(_)
StripDirections(s) ==
    IF Len(s) = 0 THEN s
    ELSE IF s[1] \in PIECE_DIRECTIONS THEN StripDirections(Tail(s))
    ELSE <<s[1]>> \o StripDirections(Tail(s))

\* The switch of parsePieceToken: the PieceKind a string names, "" when none.
PieceKindOf(working) ==
    CASE working = <<"FU">> -> "FU"
      [] working = <<"KY">> -> "KY"
      [] working = <<"KE">> -> "KE"
      [] working = <<"GI">> -> "GI"
      [] working = <<"KI">> -> "KI"
      [] working = <<"KA">> -> "KA"
      [] working = <<"HI">> -> "HI"
      [] working = <<"GY">> -> "GY"
      [] working = <<"OU">> -> "OU"
      [] working = <<"TO">> -> "TO"
      [] working = <<"NARI", "KY">> -> "NY"
      [] working = <<"NARI", "KE">> -> "NK"
      [] working = <<"NARI", "GI">> -> "NG"
      [] working = <<"UM">> -> "UM"
      [] working = <<"RY">> -> "RY"
      [] OTHER -> ""

\* parsePieceToken: ok = FALSE is the null result.
NullToken ==
    [ok |-> FALSE, kind |-> "", raw |-> <<>>, promoted |-> FALSE,
     promotionDeclined |-> FALSE]

\* A parsePieceToken that keeps the promotion flag of a piece that has no
\* promoted form.
parsePieceTokenKeepsFlag(token) ==
    IF Len(token) = 0 THEN NullToken
    ELSE
    LET declined == EndsWith(token, <<"NOT", "NARI">>)
        promoted0 == ~declined /\ EndsWith(token, <<"NARI">>)
        stripped == IF declined THEN SubSeq(token, 1, Len(token) - 2)
                    ELSE IF promoted0 THEN SubSeq(token, 1, Len(token) - 1)
                    ELSE token
        baseKind == PieceKindOf(StripDirections(stripped))
    IN  IF baseKind = "" THEN NullToken
        ELSE [ok |-> TRUE,
              kind |-> IF promoted0 THEN promoteKind(baseKind) ELSE baseKind,
              raw |-> token, promoted |-> promoted0,
              promotionDeclined |-> declined]

parsePieceToken(token) ==
    IF Len(token) = 0 THEN NullToken
    ELSE
    LET declined == EndsWith(token, <<"NOT", "NARI">>)
        promoted0 == ~declined /\ EndsWith(token, <<"NARI">>)
        stripped == IF declined THEN SubSeq(token, 1, Len(token) - 2)
                    ELSE IF promoted0 THEN SubSeq(token, 1, Len(token) - 1)
                    ELSE token
        working == StripDirections(stripped)
        baseKind == PieceKindOf(working)
        promotedKind == promoteKind(baseKind)
        promoted == promoted0 /\ ~declined /\ promotedKind # baseKind
        resultingKind == IF promoted THEN promotedKind ELSE baseKind
    IN  IF baseKind = "" THEN NullToken
        ELSE [ok |-> TRUE, kind |-> resultingKind, raw |-> token,
              promoted |-> promoted /\ ~declined,
              promotionDeclined |-> declined]

-----------------------------------------------------------------------------
(* The regular expressions of parseKif.                                    *)

\* The character class of a destination digit: [JP_NUM_FULL 1-9 JP_NUM_KANJI].
DestDigits ==
    {JP_NUM_FULL[i] : i \in 1..9} \cup {JP_NUM_KANJI[i] : i \in 1..9}
      \cup (Digits \ {"0"})

\* The length of the piece name of piecePattern at position i, 0 when none.
PieceNameLen(s, i) ==
    IF At(s, i) = "NARI" /\ At(s, i + 1) \in {"KY", "KE", "GI"} THEN 2
    ELSE IF At(s, i) \in {"UM", "RY", "TO", "FU", "KY", "KE", "GI", "KI",
                          "KA", "HI", "GY", "OU"} THEN 1
    ELSE 0

\* The length of (?:NARI|NOT NARI)? at position i.
SuffixLen(s, i) ==
    IF At(s, i) = "NARI" THEN 1
    ELSE IF At(s, i) = "NOT" /\ At(s, i + 1) = "NARI" THEN 2
    ELSE 0

NoMatch ==
    [matched |-> FALSE, m1 |-> <<>>, m2 |-> <<>>, m3 |-> <<>>, m4 |-> <<>>,
     m5 |-> None, m6 |-> None]

\* line.match(moveRe): the groups m1 .. m6 of
\*   ^\s*(\d+)\s+((?:DOU\s?)|[DestDigits]{2})piecePattern(UTSU?)
\*   (?:\((\d{2})\))?(?:\(([^\)]*)\))?
\* an optional group that did not take part is None.
MatchMove(line) ==
    LET p0 == RunEnd(line, 1, Spaces) + 1
        dEnd == RunEnd(line, p0, Digits)
        sEnd == RunEnd(line, dEnd + 1, Spaces)
        p1 == sEnd + 1
        same == At(line, p1) = "DOU"
        two == At(line, p1) \in DestDigits /\ At(line, p1 + 1) \in DestDigits
        destEnd == IF same
                   THEN (IF IsSpace(At(line, p1 + 1)) THEN p1 + 1 ELSE p1)
                   ELSE p1 + 1
        p2 == destEnd + 1
        nameLen == PieceNameLen(line, p2)
        dirEnd == RunEnd(line, p2 + nameLen, PIECE_DIRECTIONS)
        pieceEnd == dirEnd + SuffixLen(line, dirEnd + 1)
        p3 == pieceEnd + 1
        drop == At(line, p3) = "UTSU"
        p4 == IF drop THEN p3 + 1 ELSE p3
        hasFrom == /\ At(line, p4) = "("
                   /\ IsDigit(At(line, p4 + 1))
                   /\ IsDigit(At(line, p4 + 2))
                   /\ At(line, p4 + 3) = ")"
        p5 == IF hasFrom THEN p4 + 4 ELSE p4
        close == IF At(line, p5) = "(" THEN IndexFrom(line, ")", p5 + 1) ELSE 0
    IN  IF dEnd >= p0 /\ sEnd >= dEnd + 1 /\ (same \/ two) /\ nameLen > 0
        THEN [matched |-> TRUE,
              m1 |-> SubSeq(line, p0, dEnd),
              m2 |-> SubSeq(line, p1, destEnd),
              m3 |-> SubSeq(line, p2, pieceEnd),
              m4 |-> IF drop THEN <<"UTSU">> ELSE <<>>,
              m5 |-> IF hasFrom THEN Some(SubSeq(line, p4 + 1, p4 + 2))
                     ELSE None,
              m6 |-> IF close > 0 THEN Some(SubSeq(line, p5 + 1, close - 1))
                     ELSE None]
        ELSE NoMatch

\* trimmed.match(variationRe), /^HEN BAKE SEP(\d+)TE/: the group, None when
\* the line does not match.
MatchVariation(trimmed) ==
    LET dEnd == RunEnd(trimmed, 4, Digits)
    IN  IF /\ StartsWith(trimmed, <<"HEN", "BAKE", "SEP">>)
           /\ dEnd >= 4
           /\ At(trimmed, dEnd + 1) = "TE"
        THEN Some(SubSeq(trimmed, 4, dEnd))
        ELSE None

\* [\t ] of startMoveMatch's regular expression.
Blanks == {" ", "\t"}

\* toLowerCase for the letters of "start-move" (the i flag).
LowerCase(c) ==
    CASE c = "S" -> "s" [] c = "T" -> "t" [] c = "A" -> "a" [] c = "R" -> "r"
      [] c = "M" -> "m" [] c = "O" -> "o" [] c = "V" -> "v" [] c = "E" -> "e"
      [] OTHER -> c

\* start(?:-?move)?|KAI SHI TE(?:SUU)?|HYOU JI KAI SHI TE(?:SUU)?|
\* SHO KIKAN HYOU JI TE(?:SUU)?
StartMoveKeywords ==
    {<<"s", "t", "a", "r", "t">>,
     <<"s", "t", "a", "r", "t", "m", "o", "v", "e">>,
     <<"s", "t", "a", "r", "t", "-", "m", "o", "v", "e">>,
     <<"KAI", "SHI", "TE">>, <<"KAI", "SHI", "TE", "SUU">>,
     <<"HYOU", "JI", "KAI", "SHI", "TE">>,
     <<"HYOU", "JI", "KAI", "SHI", "TE", "SUU">>,
     <<"SHO", "KIKAN", "HYOU", "JI", "TE">>,
     <<"SHO", "KIKAN", "HYOU", "JI", "TE", "SUU">>}

\* The group of startMoveMatch's regular expression,
\*   ^[\t ]*(?:[#;]|\/\/)?[\t ]*(?:keywords)[\t ]*(?:[:SEP=])[\t ]*(\d+)
\* with the flags i and m, matched at the start of one line; None when the
\* line does not match.
StartMoveGroup(line) ==
    LET p0 == RunEnd(line, 1, Blanks) + 1
        p1 == IF At(line, p0) \in {"#", ";"} THEN p0 + 1
              ELSE IF At(line, p0) = "/" /\ At(line, p0 + 1) = "/" THEN p0 + 2
              ELSE p0
        p2 == RunEnd(line, p1, Blanks) + 1
        \* Where the digits start when the keyword is w, 0 when it is not.
        DigitsAfter(w) ==
            LET q == p2 + Len(w)
                sep == RunEnd(line, q, Blanks) + 1
            IN  IF /\ q - 1 <= Len(line)
                   /\ [i \in 1..Len(w) |-> LowerCase(line[p2 + i - 1])] = w
                   /\ At(line, sep) \in {":", "SEP", "="}
                THEN RunEnd(line, sep + 1, Blanks) + 1
                ELSE 0
        starts == {DigitsAfter(w) : w \in StartMoveKeywords} \ {0}
        matching == {d \in starts : RunEnd(line, d, Digits) >= d}
    IN  IF matching = {} THEN None
        ELSE LET d == CHOOSE x \in matching : TRUE
             IN  Some(SubSeq(line, d, RunEnd(line, d, Digits)))

\* startMoveMatch ? parseInt(startMoveMatch[1], 10) : undefined, the match
\* being the one of the first line of the text that has one.
RECURSIVE RequestedInitialMove(_)
RequestedInitialMove(text) ==
    IF Len(text) = 0 THEN None
    ELSE IF IsSome(StartMoveGroup(Head(text)))
         THEN Some(ParseInt(Val(StartMoveGroup(Head(text)))))
    ELSE RequestedInitialMove(Tail(text))

\* s without its white space: s.replace(/[\s\u3000]/g, '').
RECURSIVE StripSpaces(_)
StripSpaces(s) ==
    IF Len(s) = 0 THEN s
    ELSE IF IsSpace(s[1]) THEN StripSpaces(Tail(s))
    ELSE <<s[1]>> \o StripSpaces(Tail(s))

-----------------------------------------------------------------------------
(* parseKif: one step for each line of the text.                           *)

RootLine == 1

NewLine(start, parent) ==
    [startMoveNumber |-> start, moves |-> <<>>, parent |-> parent,
     leadVariations |-> <<>>]

\* const root = { startMoveNumber: 1, moves: [], leadVariations: [] }
EmptyRoot == NewLine(1, None)

\* The ParsedMove a reference <<line, position>> names.
MoveAt(ref) == lines[ref[1]].moves[ref[2]]

\* Array.find / findIndex on a line's moves: the first position with number
\* n, 0 when there is none.
RECURSIVE FindNumberFrom(_, _, _)
FindNumberFrom(moves, n, i) ==
    IF i > Len(moves) THEN 0
    ELSE IF moves[i].n = n THEN i
    ELSE FindNumberFrom(moves, n, i + 1)

FindNumber(moves, n) == FindNumberFrom(moves, n, 1)

\* The loop over contextStack from the top: the first context whose line has
\* a move numbered targetNumber, 0 when no context has one.
RECURSIVE SearchAnchor(_, _)
\* A search that prefers the outermost context.
SearchAnchorOutermost(i, targetNumber) ==
    LET with == {c \in 1..i :
                   FindNumber(lines[contextStack[c].line].moves,
                              targetNumber) > 0}
    IN  IF with = {} THEN 0 ELSE CHOOSE c \in with : \A d \in with : c <= d

SearchAnchor(i, targetNumber) ==
    IF i < 1 THEN 0
    ELSE IF FindNumber(lines[contextStack[i].line].moves, targetNumber) > 0
         THEN i
    ELSE SearchAnchor(i - 1, targetNumber)

\* if (!anchorContext) { anchorContext = rootContext; ... }: a context is its
\* position in contextStack, rootContext is position 1, 0 is undefined.
AnchorContextOrRootMissing(found) == found
\* A fallback to the innermost context instead of the root.
AnchorContextOrInnermost(found) ==
    IF found = 0 THEN Len(contextStack) ELSE found
AnchorContextOrRoot(found) == IF found = 0 THEN 1 ELSE found

\* A count that is the 0-based index of the anchor move.
AnchorMoveCountZeroBased(anchorPos) ==
    IF anchorPos > 0 THEN anchorPos - 1 ELSE 0

\* anchorMove ? (anchorContext.line.moves.indexOf(anchorMove) + 1) : 0, the
\* anchor move being given by its position from 1, 0 for none.
AnchorMoveCount(anchorPos) == anchorPos

\* An attachment that lists an anchored variation among the leadVariations
\* of the anchor line as well.
AttachAlsoAsLead(ls, anchorLine, anchorPos, id) ==
    LET asLead == [ls EXCEPT ![anchorLine].leadVariations = Append(@, id)]
    IN  IF anchorPos > 0
        THEN [asLead EXCEPT ![anchorLine].moves[anchorPos].variations =
                               Append(@, id)]
        ELSE asLead

\* if (anchorMove) anchorMove.variations.push(variationLine);
\* else anchorContext.line.leadVariations.push(variationLine);
Attach(ls, anchorLine, anchorPos, id) ==
    IF anchorPos > 0
    THEN [ls EXCEPT ![anchorLine].moves[anchorPos].variations = Append(@, id)]
    ELSE [ls EXCEPT ![anchorLine].leadVariations = Append(@, id)]

\* A handling of the marker that goes on in the anchor context: the context
\* of the new line is not pushed.
ParseVariationKeepsContext(start) ==
    LET targetNumber == start - 1
        found == IF start = 1 THEN 1
                 ELSE SearchAnchor(Len(contextStack), targetNumber)
        anchorContext == AnchorContextOrRoot(found)
    IN  IF anchorContext = 0
        THEN [threw |-> TRUE, lines |-> lines, contextStack |-> <<>>]
        ELSE
        LET anchorLine == contextStack[anchorContext].line
            anchorPos == IF start = 1 \/ found = 0 THEN 0
                         ELSE FindNumber(lines[anchorLine].moves, targetNumber)
            variationLine ==
                NewLine(start,
                        Some([line |-> anchorLine,
                              anchorMoveCount |-> AnchorMoveCount(anchorPos)]))
        IN  [threw |-> FALSE,
             lines |-> Append(Attach(lines, anchorLine, anchorPos,
                                     Len(lines) + 1),
                              variationLine),
             contextStack |-> SubSeq(contextStack, 1, anchorContext)]

\* The lines of parseKif's loop body that handle a variation marker whose
\* number reads `start': the parser state after them; threw when the code
\* dereferences undefined.
ParseVariation(start) ==
    LET targetNumber == start - 1
        found == IF start = 1 THEN 1
                 ELSE SearchAnchor(Len(contextStack), targetNumber)
        anchorContext == AnchorContextOrRoot(found)
    IN  IF anchorContext = 0
        THEN [threw |-> TRUE, lines |-> lines, contextStack |-> <<>>]
        ELSE
        LET anchorLine == contextStack[anchorContext].line
            anchorPos == IF start = 1 \/ found = 0 THEN 0
                         ELSE FindNumber(lines[anchorLine].moves, targetNumber)
            anchorMoveCount == AnchorMoveCount(anchorPos)
            id == Len(lines) + 1
            variationLine ==
                NewLine(start, Some([line |-> anchorLine,
                                     anchorMoveCount |-> anchorMoveCount]))
            attached == Attach(lines, anchorLine, anchorPos, id)
        IN  [threw |-> FALSE,
             lines |-> Append(attached, variationLine),
             contextStack |->
                 Append(SubSeq(contextStack, 1, anchorContext),
                        [line |-> id,
                         prevMove |-> IF anchorPos > 0
                                      THEN Some(<<anchorLine, anchorPos>>)
                                      ELSE None])]

\* A decoding that looks for the previous move in the context's own line
\* only.
DecodeToFromOwnLine(toToken, ctx) ==
    IF toToken = <<"DOU">>
    THEN (IF Len(lines[ctx.line].moves) > 0
          THEN Some(lines[ctx.line].moves[Len(lines[ctx.line].moves)].to)
          ELSE None)
    ELSE LET sq == parseSquare(toToken)
         IN  IF sq.threw THEN None ELSE Some(sq.value)

\* The destination of a move line: to, undefined (None) when the line is to
\* be dropped.
DecodeTo(toToken, ctx) ==
    IF toToken = <<"DOU">>
    THEN (IF IsSome(ctx.prevMove) THEN Some(MoveAt(Val(ctx.prevMove)).to)
          ELSE None)
    ELSE LET sq == parseSquare(toToken)
         IN  IF sq.threw THEN None ELSE Some(sq.value)

\* The ParsedMove of a matched move line, None when the line is dropped.
DecodeMove(m, ctx) ==
    LET toToken == StripSpaces(m.m2)
        to == DecodeTo(toToken, ctx)
        pieceToken == parsePieceToken(m.m3)
    IN  IF ~IsSome(to) \/ ~pieceToken.ok THEN None
        ELSE Some(
          [n |-> ParseInt(m.m1),
           to |-> Val(to),
           from |-> IF IsSome(m.m5)
                    THEN Some([f |-> DigitValue(Val(m.m5)[1]),
                               r |-> DigitValue(Val(m.m5)[2])])
                    ELSE None,
           kind |-> pieceToken.kind,
           rawKind |-> pieceToken.raw,
           promoted |-> pieceToken.promoted,
           promotionDeclined |-> pieceToken.promotionDeclined,
           drop |-> m.m4 = <<"UTSU">>,
           comment |-> None,
           timestamp |-> IF IsSome(m.m6) THEN Some(Trim(Val(m.m6))) ELSE None,
           rawTo |-> toToken,
           variations |-> <<>>])

\* A classification that tests for a comment before it tests for a header.
LineClassCommentFirst(raw) ==
    LET line == TrimEnd(raw)
        trimmed == Trim(line)
    IN  IF Len(trimmed) = 0 THEN "skip"
        ELSE IF StartsWith(trimmed, <<"#">>)
                \/ StartsWith(trimmed, <<"-", "-", "-", "-">>) THEN "skip"
        ELSE IF IsSome(MatchVariation(trimmed)) THEN "variation"
        ELSE IF StartsWith(trimmed, <<"*">>) THEN "comment"
        ELSE IF Includes(trimmed, "SEP") THEN "header"
        ELSE IF MatchMove(line).matched THEN "move"
        ELSE "none"

\* The class of a line of the text, in the order parseKif tests them.
LineClass(raw) ==
    LET line == TrimEnd(raw)
        trimmed == Trim(line)
    IN  IF Len(trimmed) = 0 THEN "skip"
        ELSE IF StartsWith(trimmed, <<"#">>)
                \/ StartsWith(trimmed, <<"-", "-", "-", "-">>) THEN "skip"
        ELSE IF IsSome(MatchVariation(trimmed)) THEN "variation"
        ELSE IF Includes(trimmed, "SEP") THEN "header"
        ELSE IF StartsWith(trimmed, <<"*">>) THEN "comment"
        ELSE IF MatchMove(line).matched THEN "move"
        ELSE "none"

Reading(class) ==
    /\ pc = "parsing"
    /\ Len(input) > 0
    /\ LineClass(Head(input)) = class
    /\ input' = Tail(input)
    /\ UNCHANGED <<requestedInitialMove, viewerVars>>

\* What the loop body did with the line it read.
Parsed(what) == lastOp' = [op |-> "parseLine", ret |-> what]

\* A blank line, or one that starts with '#' or '----'.
SkipLine ==
    /\ Reading("skip")
    /\ Parsed("skipped")
    /\ UNCHANGED <<pc, header, lines, contextStack>>

VariationMarkerLine ==
    /\ Reading("variation")
    /\ Parsed("variation")
    /\ LET start == ParseInt(Val(MatchVariation(Trim(Head(input)))))
           after == ParseVariation(start)
       IN  /\ pc' = IF after.threw THEN "parseThrew" ELSE pc
           /\ lines' = after.lines
           /\ contextStack' = after.contextStack
    /\ UNCHANGED header

HeaderLine ==
    /\ Reading("header")
    /\ Parsed("header")
    /\ LET parts == Split(Trim(Head(input)), "SEP")
           k == parts[1]
           v == parts[2]
       IN  header' =
             IF Len(k) > 0 /\ Len(v) > 0
             THEN [x \in DOMAIN header \cup {Trim(k)} |->
                     IF x = Trim(k) THEN Trim(v) ELSE header[x]]
             ELSE header
    /\ UNCHANGED <<pc, lines, contextStack>>

CommentLine ==
    /\ Reading("comment")
    /\ Parsed("comment")
    /\ LET ctx == contextStack[Len(contextStack)]
           text == Trim(Slice(Trim(Head(input)), 2))
       IN  lines' =
             IF IsSome(ctx.prevMove)
             THEN LET ref == Val(ctx.prevMove)
                      old == MoveAt(ref).comment
                  IN  [lines EXCEPT ![ref[1]].moves[ref[2]].comment =
                         Some((IF IsSome(old) /\ Len(Val(old)) > 0
                               THEN Val(old) \o <<"\n">> ELSE <<>>) \o text)]
             ELSE lines
    /\ UNCHANGED <<pc, header, contextStack>>

MoveLine ==
    /\ Reading("move")
    /\ LET top == Len(contextStack)
           ctx == contextStack[top]
           mv == DecodeMove(MatchMove(TrimEnd(Head(input))), ctx)
       IN  IF IsSome(mv)
           THEN /\ lines' = [lines EXCEPT ![ctx.line].moves =
                                              Append(@, Val(mv))]
                /\ contextStack' =
                     [contextStack EXCEPT ![top].prevMove =
                        Some(<<ctx.line, Len(lines[ctx.line].moves) + 1>>)]
                /\ Parsed("move")
           ELSE /\ UNCHANGED <<lines, contextStack>>
                /\ Parsed("dropped")
    /\ UNCHANGED <<pc, header>>

\* A line of no recognised shape.
UnmatchedLine ==
    /\ Reading("none")
    /\ Parsed("unmatched")
    /\ UNCHANGED <<pc, header, lines, contextStack>>

\* return { header, root }
ParseReturn ==
    /\ pc = "parsing"
    /\ Len(input) = 0
    /\ pc' = "parsed"
    /\ UNCHANGED <<requestedInitialMove, parserVars, viewerVars, lastOp>>

-----------------------------------------------------------------------------
(* renderKif: the replay engine.                                           *)

NoTimer == 0

\* The state of the closure of renderKif, as one value the handlers pass on;
\* threw says that an exception is propagating out of the handler.
View ==
    [board |-> board, hands |-> hands, lastFrom |-> lastFrom,
     lastTo |-> lastTo, latestMove |-> latestMove,
     currentLine |-> currentLine, currentMoveIdx |-> currentMoveIdx,
     lineState |-> lineState, availableVariations |-> availableVariations,
     isPlaying |-> isPlaying, autoPlayIntervalId |-> autoPlayIntervalId,
     timers |-> timers, threw |-> FALSE]

\* A stopAutoplay that forgets the interval without clearing it.
stopAutoplayKeepsTimer(v) ==
    [v EXCEPT !.autoPlayIntervalId = NoTimer, !.isPlaying = FALSE]

stopAutoplay(v) ==
    [v EXCEPT !.timers = @ \ {v.autoPlayIntervalId},
              !.autoPlayIntervalId = NoTimer,
              !.isPlaying = FALSE]

\* window.setInterval returns an id no armed interval has.
FreshTimer(armed) ==
    CHOOSE id \in 1..(Cardinality(armed) + 1) :
        /\ id \notin armed
        /\ \A other \in 1..(id - 1) : other \in armed

startAutoplay(v) ==
    IF v.isPlaying THEN v
    ELSE LET id == FreshTimer(v.timers)
         IN  [v EXCEPT !.isPlaying = TRUE,
                       !.timers = @ \cup {id},
                       !.autoPlayIntervalId = id]

toggleAutoplay(v) ==
    IF v.isPlaying THEN stopAutoplay(v) ELSE startAutoplay(v)

\* The references <<line, 1>> .. <<line, count>>: line.moves.slice(0, count).
Prefix(line, count) == [i \in 1..count |-> <<line, i>>]

\* A gatherMoves that takes the parent's prefix and no ancestor's above it.
gatherMovesOneLevel(line, upto) ==
    LET count == Max(0, Min(upto, Len(lines[line].moves)))
        prefix == Prefix(line, count)
        parent == lines[line].parent
    IN  IF ~IsSome(parent) THEN prefix
        ELSE LET parentCount ==
                   Max(0, Min(Val(parent).anchorMoveCount,
                              Len(lines[Val(parent).line].moves)))
             IN  Prefix(Val(parent).line, parentCount) \o prefix

RECURSIVE gatherMoves(_, _)
gatherMoves(line, upto) ==
    LET count == Max(0, Min(upto, Len(lines[line].moves)))
        prefix == Prefix(line, count)
        parent == lines[line].parent
    IN  IF ~IsSome(parent) THEN prefix
        ELSE LET parentCount ==
                   Max(0, Min(Val(parent).anchorMoveCount,
                              Len(lines[Val(parent).line].moves)))
             IN  gatherMoves(Val(parent).line, parentCount) \o prefix

\* A search whose miss is taken for the last entry, as hand.splice(-1, 1)
\* would.
RECURSIVE FindKindOrLast(_, _, _)
FindKindOrLast(hand, kind, i) ==
    IF i > Len(hand) THEN Len(hand)
    ELSE IF hand[i] = kind THEN i
    ELSE FindKindOrLast(hand, kind, i + 1)

\* hand.findIndex(k => k === kind), from 1, 0 when absent.
RECURSIVE FindKindFrom(_, _, _)
FindKindFrom(hand, kind, i) ==
    IF i > Len(hand) THEN 0
    ELSE IF hand[i] = kind THEN i
    ELSE FindKindFrom(hand, kind, i + 1)

\* hand.splice(i, 1)
Splice(hand, i) == SubSeq(hand, 1, i - 1) \o SubSeq(hand, i + 1, Len(hand))

\* What the replay loop carries from one move to the next.
ReplayStart ==
    [board |-> initialBoard, hands |-> [B |-> <<>>, W |-> <<>>],
     lastFrom |-> None, lastTo |-> None, latestMove |-> None,
     threw |-> FALSE]

\* board[r - 1] is undefined off the board, and indexing undefined throws a
\* TypeError; row[f - 1] off the board is undefined, which reads as no piece.
RowMissing(r) == r \notin Coords
CellAt(b, sq) == IF sq.f \in Coords THEN b[sq.r][sq.f] ELSE NoPiece
\* An assignment to row[f - 1] off the board leaves the 81 cells as they are.
PutAt(b, sq, piece) ==
    IF sq.f \in Coords THEN [b EXCEPT ![sq.r][sq.f] = piece] ELSE b

\* The kind the moving piece arrives with.
ArrivalKind(mv, kind) ==
    LET k1 == IF ~mv.drop /\ mv.promoted THEN promoteKind(kind) ELSE kind
        k2 == IF ~mv.drop /\ mv.promotionDeclined /\ mv.kind = ""
              THEN demoteKind(k1) ELSE k1
    IN  IF mv.kind # "" THEN mv.kind ELSE k2

\* A capture that puts the piece in the hand in the form it had on the board.
LandKeepsPromotion(rs, ref, moving) ==
    LET mv == MoveAt(ref)
        side == IF mv.n % 2 = 1 THEN "B" ELSE "W"
        to == mv.to
        target == CellAt(rs.board, to)
        captured == target # NoPiece /\ target.side # side
        hands1 == IF captured
                  THEN [rs.hands EXCEPT ![side] = Append(@, target.kind)]
                  ELSE rs.hands
        placed == [moving EXCEPT !.kind = ArrivalKind(mv, moving.kind)]
    IN  [rs EXCEPT !.hands = hands1,
                   !.board = PutAt(rs.board, to, placed),
                   !.lastTo = Some(to),
                   !.latestMove = Some(ref)]

\* A capture that puts the piece in the hand of the side that lost it.
LandCapturesForOwner(rs, ref, moving) ==
    LET mv == MoveAt(ref)
        side == IF mv.n % 2 = 1 THEN "B" ELSE "W"
        to == mv.to
        target == CellAt(rs.board, to)
        captured == target # NoPiece /\ target.side # side
        hands1 == IF captured
                  THEN [rs.hands EXCEPT
                          ![target.side] = Append(@, demoteKind(target.kind))]
                  ELSE rs.hands
        placed == [moving EXCEPT !.kind = ArrivalKind(mv, moving.kind)]
    IN  [rs EXCEPT !.hands = hands1,
                   !.board = PutAt(rs.board, to, placed),
                   !.lastTo = Some(to),
                   !.latestMove = Some(ref)]

\* A landing that gives the piece the side that is to move.
LandAsActingSide(rs, ref, moving) ==
    LET mv == MoveAt(ref)
        side == IF mv.n % 2 = 1 THEN "B" ELSE "W"
        to == mv.to
        target == CellAt(rs.board, to)
        captured == target # NoPiece /\ target.side # side
        hands1 == IF captured
                  THEN [rs.hands EXCEPT
                          ![side] = Append(@, demoteKind(target.kind))]
                  ELSE rs.hands
        placed == [side |-> side, kind |-> ArrivalKind(mv, moving.kind)]
    IN  [rs EXCEPT !.hands = hands1,
                   !.board = PutAt(rs.board, to, placed),
                   !.lastTo = Some(to),
                   !.latestMove = Some(ref)]

\* From `const to = mv.to' to the end of the loop body.
Land(rs, ref, moving) ==
    LET mv == MoveAt(ref)
        side == IF mv.n % 2 = 1 THEN "B" ELSE "W"
        to == mv.to
    IN  IF RowMissing(to.r) THEN [rs EXCEPT !.threw = TRUE]
        ELSE
        LET target == CellAt(rs.board, to)
            captured == target # NoPiece /\ target.side # side
            hands1 == IF captured
                      THEN [rs.hands EXCEPT
                              ![side] = Append(@, demoteKind(target.kind))]
                      ELSE rs.hands
            placed == [moving EXCEPT !.kind = ArrivalKind(mv, moving.kind)]
        IN  [rs EXCEPT !.hands = hands1,
                       !.board = PutAt(rs.board, to, placed),
                       !.lastTo = Some(to),
                       !.latestMove = Some(ref)]

\* One round of the loop `for (const mv of sequence)' of applyCurrent.
ReplayMove(rs, ref) ==
    LET mv == MoveAt(ref)
        side == IF mv.n % 2 = 1 THEN "B" ELSE "W"
    IN  IF mv.drop
        THEN LET dropKind == demoteKind(IF mv.kind = "" THEN "FU" ELSE mv.kind)
                 idxInHand == FindKindFrom(rs.hands[side], dropKind, 1)
                 hands1 == IF idxInHand > 0
                           THEN [rs.hands EXCEPT ![side] = Splice(@, idxInHand)]
                           ELSE rs.hands
             IN  Land([rs EXCEPT !.hands = hands1, !.lastFrom = None],
                      ref, [side |-> side, kind |-> dropKind])
        ELSE IF IsSome(mv.from)
        THEN LET from == Val(mv.from)
             IN  IF RowMissing(from.r) THEN [rs EXCEPT !.threw = TRUE]
                 ELSE LET src == CellAt(rs.board, from)
                      IN  IF src = NoPiece THEN rs
                          ELSE Land([rs EXCEPT
                                       !.board = PutAt(@, from, NoPiece),
                                       !.lastFrom = Some(from)],
                                    ref, src)
        ELSE rs

\* The loop: the moves of sequence from position i on, until one throws.
\* The position after a move is computed once and carried to the next round.
RECURSIVE ReplayFrom(_, _, _)
ReplayFrom(rs, sequence, i) ==
    IF i > Len(sequence) THEN rs
    ELSE CHOOSE end \in {IF next.threw THEN next
                         ELSE ReplayFrom(next, sequence, i + 1) :
                           next \in {ReplayMove(rs, sequence[i])}} : TRUE

Replay(sequence) == ReplayFrom(ReplayStart, sequence, 1)

applyCurrent(v, idx) ==
    LET clamped == Max(0, Min(idx, Len(lines[v.currentLine].moves)))
        \* The assignments up to the end of the loop, rs being its result.
        Replayed(rs) ==
            [v EXCEPT !.currentMoveIdx = clamped,
                      !.lineState = (v.currentLine :> clamped) @@ @,
                      !.board = rs.board, !.hands = rs.hands,
                      !.lastFrom = rs.lastFrom, !.lastTo = rs.lastTo,
                      !.latestMove = rs.latestMove, !.threw = rs.threw]
        \* if (isPlaying && currentMoveIdx >= currentLine.moves.length)
        AutoStopped(v1) ==
            IF ~v1.threw /\ v1.isPlaying
               /\ v1.currentMoveIdx >= Len(lines[v1.currentLine].moves)
            THEN stopAutoplay(v1)
            ELSE v1
    IN  CHOOSE end \in
          {AutoStopped(v1) :
             v1 \in {Replayed(rs) :
                       rs \in {Replay(gatherMoves(v.currentLine, clamped))}}} :
          TRUE

\* The concatenation of the variations of moves[i], moves[i+1], ...
RECURSIVE MoveVariationsFrom(_, _)
MoveVariationsFrom(moves, i) ==
    IF i > Len(moves) THEN <<>>
    ELSE moves[i].variations \o MoveVariationsFrom(moves, i + 1)

\* updateVariationUI, as far as it sets availableVariations; a handler in
\* which applyCurrent threw does not get to it.
updateVariationUI(v) ==
    CHOOSE end \in
      {IF at.threw THEN at
       ELSE [at EXCEPT !.availableVariations =
               lines[at.currentLine].leadVariations
                 \o MoveVariationsFrom(lines[at.currentLine].moves, 1)] :
         at \in {v}} : TRUE

SetLineState(v) ==
    [v EXCEPT !.lineState = (v.currentLine :> v.currentMoveIdx) @@ @]

\* A jumpTo that leaves autoplay running.
jumpToWhilePlaying(v, line, moveIndex) ==
    LET v1 == [SetLineState(v) EXCEPT !.currentLine = line]
        targetCount == Max(0, Min(moveIndex + 1, Len(lines[line].moves)))
    IN  updateVariationUI(applyCurrent(v1, targetCount))

jumpTo(v, line, moveIndex) ==
    LET v1 == [SetLineState(stopAutoplay(v)) EXCEPT !.currentLine = line]
        targetCount == Max(0, Min(moveIndex + 1, Len(lines[line].moves)))
    IN  updateVariationUI(applyCurrent(v1, targetCount))

NotFound == [found |-> FALSE, line |-> 0, moveIndex |-> -1]

\* findMoveByNumber.  The three mutually recursive operators are the function
\* and its two loops: over the variations vs[j..] of the moves ms[i..], and
\* over a list of variations.
RECURSIVE findMoveByNumber(_, _), FindInMoveVariations(_, _, _, _),
          FindInVariations(_, _, _)
findMoveByNumber(line, moveNumber) ==
    LET idx == FindNumber(lines[line].moves, moveNumber) - 1
    IN  IF idx >= 0 THEN [found |-> TRUE, line |-> line, moveIndex |-> idx]
        ELSE LET inMoves ==
                   FindInMoveVariations(lines[line].moves, 1, 1, moveNumber)
             IN  IF inMoves.found THEN inMoves
                 ELSE FindInVariations(lines[line].leadVariations, 1,
                                       moveNumber)

FindInMoveVariations(ms, i, j, moveNumber) ==
    IF i > Len(ms) THEN NotFound
    ELSE IF j > Len(ms[i].variations)
         THEN FindInMoveVariations(ms, i + 1, 1, moveNumber)
    ELSE LET found == findMoveByNumber(ms[i].variations[j], moveNumber)
         IN  IF found.found THEN found
             ELSE FindInMoveVariations(ms, i, j + 1, moveNumber)

FindInVariations(vs, j, moveNumber) ==
    IF j > Len(vs) THEN NotFound
    ELSE LET found == findMoveByNumber(vs[j], moveNumber)
         IN  IF found.found THEN found
             ELSE FindInVariations(vs, j + 1, moveNumber)

\* goToMoveNumber: the state after it and what it returns ("true", "false",
\* or "throw" when an exception leaves it).  finite is Number.isFinite.
Outcome(v, ret) ==
    CHOOSE out \in {[view |-> end, ret |-> IF end.threw THEN "throw" ELSE ret] :
                      end \in {v}} : TRUE

\* A goToMoveNumber that goes as far as it can when the number is missing.
goToMoveNumberClampsMiss(v, finite, moveNumber) ==
    IF ~finite \/ moveNumber < 0 THEN Outcome(v, "false")
    ELSE LET found == findMoveByNumber(RootLine, moveNumber)
         IN  IF found.found
             THEN Outcome(jumpTo(v, found.line, found.moveIndex), "true")
             ELSE Outcome(updateVariationUI(
                            applyCurrent(stopAutoplay(v), moveNumber)),
                          "false")

goToMoveNumber(v, finite, moveNumber) ==
    IF ~finite \/ moveNumber < 0 THEN Outcome(v, "false")
    ELSE
    LET v1 == stopAutoplay(v)
    IN  IF moveNumber = 0
        THEN Outcome(updateVariationUI(applyCurrent(v1, 0)), "true")
        ELSE
        LET found == findMoveByNumber(RootLine, moveNumber)
        IN  IF ~found.found THEN Outcome(v1, "false")
            ELSE IF found.line = v1.currentLine
            THEN LET target ==
                       Max(0, Min(found.moveIndex + 1,
                                  Len(lines[v1.currentLine].moves)))
                 IN  Outcome(updateVariationUI(applyCurrent(v1, target)),
                             "true")
            ELSE Outcome(jumpTo(v1, found.line, found.moveIndex), "true")

\* A switchToVariation that enters the variation at its start, whatever is
\* remembered.
switchToVariationFromStart(v, variation) ==
    LET v1 == [SetLineState(stopAutoplay(v)) EXCEPT !.currentLine = variation]
    IN  updateVariationUI(applyCurrent(v1, 0))

switchToVariation(v, variation) ==
    LET v1 == [SetLineState(stopAutoplay(v)) EXCEPT !.currentLine = variation]
        target == IF variation \in DOMAIN v1.lineState
                  THEN Max(0, Min(v1.lineState[variation],
                                  Len(lines[variation].moves)))
                  ELSE 0
    IN  updateVariationUI(applyCurrent(v1, target))

\* A goToParent that always goes to the anchor point, whatever is remembered.
goToParentToAnchor(v) ==
    LET parentInfo == lines[v.currentLine].parent
    IN  IF ~IsSome(parentInfo) THEN v
        ELSE
        LET parent == Val(parentInfo).line
            v1 == [SetLineState(stopAutoplay(v)) EXCEPT !.currentLine = parent]
        IN  updateVariationUI(
              applyCurrent(v1, Min(Val(parentInfo).anchorMoveCount,
                                   Len(lines[parent].moves))))

\* A goToParent that lands at the end of the parent line.
goToParentToEnd(v) ==
    LET parentInfo == lines[v.currentLine].parent
    IN  IF ~IsSome(parentInfo) THEN v
        ELSE
        LET parent == Val(parentInfo).line
            v1 == [SetLineState(stopAutoplay(v)) EXCEPT !.currentLine = parent]
        IN  updateVariationUI(applyCurrent(v1, Len(lines[parent].moves)))

goToParent(v) ==
    LET parentInfo == lines[v.currentLine].parent
    IN  IF ~IsSome(parentInfo) THEN v
        ELSE
        LET parent == Val(parentInfo).line
            v1 == [SetLineState(stopAutoplay(v)) EXCEPT !.currentLine = parent]
            target == IF parent \in DOMAIN v1.lineState
                      THEN Max(0, Min(v1.lineState[parent],
                                      Len(lines[parent].moves)))
                      ELSE Min(Val(parentInfo).anchorMoveCount,
                               Len(lines[parent].moves))
        IN  updateVariationUI(applyCurrent(v1, target))

\* A callback that starts over from the first move at the end of the line.
autoplayTickWraps(v) ==
    updateVariationUI(
      applyCurrent(v, IF v.currentMoveIdx >= Len(lines[v.currentLine].moves)
                      THEN 0 ELSE v.currentMoveIdx + 1))

\* The callback startAutoplay hands to window.setInterval.
autoplayTick(v) ==
    IF v.currentMoveIdx >= Len(lines[v.currentLine].moves)
    THEN stopAutoplay(v)
    ELSE updateVariationUI(
           applyCurrent(v, Min(Len(lines[v.currentLine].moves),
                               v.currentMoveIdx + 1)))

RECURSIVE hasAnyMoves(_), AnyLeadHasMoves(_, _)
hasAnyMoves(line) ==
    \/ Len(lines[line].moves) > 0
    \/ AnyLeadHasMoves(lines[line].leadVariations, 1)

AnyLeadHasMoves(vs, j) ==
    /\ j <= Len(vs)
    /\ (hasAnyMoves(vs[j]) \/ AnyLeadHasMoves(vs, j + 1))

\* buildMoveTree.  The node `move-node-<id>' is nodes[id + 1]; its label is
\* left out.
RootId == 0
NodeAt(nodes, id) == nodes[id + 1]

RECURSIVE buildLineNodes(_, _, _), VariationNodes(_, _, _, _),
          MoveVariationNodes(_, _, _, _)

\* A loop over variations that builds their nodes and lists none of them as
\* a child.
VariationNodesUnlisted(nodes, vs, j, parentId) ==
    IF j > Len(vs) THEN nodes
    ELSE VariationNodes(buildLineNodes(nodes, vs[j], parentId).nodes,
                        vs, j + 1, parentId)

\* for (const variation of vs) { const variationRoot =
\*   buildLineNodes(variation, parentId);
\*   if (variationRoot) nodes[parentId].childIds.push(variationRoot); }
\* from the variation vs[j] on.
VariationNodes(nodes, vs, j, parentId) ==
    IF j > Len(vs) THEN nodes
    ELSE \* The binding through a set has the value computed once.
         CHOOSE end \in
           {VariationNodes(
              IF IsSome(built.first)
              THEN [built.nodes EXCEPT
                      ![parentId + 1].childIds = Append(@, Val(built.first))]
              ELSE built.nodes,
              vs, j + 1, parentId) :
              built \in {buildLineNodes(nodes, vs[j], parentId)}} : TRUE

\* A loop over line.moves that hangs the variations of each move under the
\* node of the move before it.
MoveVariationNodesUnderPrevious(nodes, line, i, first) ==
    IF i > Len(lines[line].moves) THEN nodes
    ELSE MoveVariationNodes(
           VariationNodes(nodes, lines[line].moves[i].variations, 1,
                          IF i = 1 THEN Val(nodes[first + 1].parentId)
                          ELSE first + i - 2),
           line, i + 1, first)

\* The loop over line.moves that builds the variations of each move, from
\* the move at place i on; first is the id of the node of the first move.
MoveVariationNodes(nodes, line, i, first) ==
    IF i > Len(lines[line].moves) THEN nodes
    ELSE CHOOSE end \in
           {MoveVariationNodes(withVariations, line, i + 1, first) :
              withVariations \in
                {VariationNodes(nodes, lines[line].moves[i].variations, 1,
                                first + i - 1)}} : TRUE

\* buildLineNodes(line, parentId): the nodes after the call and the id it
\* returns (None for null).
buildLineNodes(nodes, line, parentId) ==
    LET moves == lines[line].moves
        count == Len(moves)
        first == Len(nodes)
        \* The nodes of the moves after the loop that chains them.
        chained ==
            [i \in 1..count |->
               [ply |-> moves[i].n,
                parentId |-> Some(IF i = 1 THEN parentId ELSE first + i - 2),
                childIds |-> IF i < count THEN <<first + i>> ELSE <<>>,
                jumpRef |-> [line |-> line, moveIndex |-> i - 1,
                             moveNumber |-> moves[i].n]]]
    IN  CHOOSE end \in
          {[nodes |-> VariationNodes(withMoves, lines[line].leadVariations,
                                     1, parentId),
            first |-> IF count > 0 THEN Some(first) ELSE None] :
             withMoves \in
               {MoveVariationNodes(nodes \o chained, line, 1, first)}} : TRUE

buildMoveTree ==
    LET rootNode == [ply |-> 0, parentId |-> None, childIds |-> <<>>,
                     jumpRef |-> [line |-> RootLine, moveIndex |-> -1,
                                  moveNumber |-> 0]]
    IN  CHOOSE tree \in
          {[rootId |-> RootId,
            nodes |-> IF IsSome(built.first)
                      THEN [built.nodes EXCEPT
                              ![RootId + 1].childIds =
                                 Append(@, Val(built.first))]
                      ELSE built.nodes] :
             built \in {buildLineNodes(<<rootNode>>, RootLine, RootId)}} : TRUE

\* The jumpRef of the nodes of latestMoveTree; no tree is built for a record
\* without moves.
JumpRefs ==
    IF ~hasAnyMoves(RootLine) THEN {}
    ELSE {[line |-> buildMoveTree.nodes[i].jumpRef.line,
           moveIndex |-> buildMoveTree.nodes[i].jumpRef.moveIndex] :
            i \in 1..Len(buildMoveTree.nodes)}

-----------------------------------------------------------------------------
(* The input texts.                                                        *)

\* "1 (F2)(K2)KA NARI(88)": the bishop takes the bishop on 22 and promotes.
LnCapture == <<"1", " ", "F2", "K2", "KA", "NARI", "(", "8", "8", ")">>
\* "2 DOU GI(31)( 0:02)": the silver retakes on the same square.
LnRetake ==
    <<"2", " ", "DOU", "IDSP", "GI", "(", "3", "1", ")",
      "(", " ", "0", ":", "0", "2", ")">>
\* "2 DOU HI(82)": the rook retakes instead.
LnRookRetake == <<"2", " ", "DOU", "IDSP", "HI", "(", "8", "2", ")">>
\* "3 (F5)(K5)KA UTSU": a bishop is dropped on 55.
LnDropBishop == <<"3", " ", "F5", "K5", "KA", "UTSU">>
\* "3 (F3)(K3)KA UTSU": a bishop is dropped on the pawn on 33.
LnDropOnPawn == <<"3", " ", "F3", "K3", "KA", "UTSU">>
\* "3 (F5)(K5)UM UTSU": a promoted bishop is dropped on 55.
LnDropHorse == <<"3", " ", "F5", "K5", "UM", "UTSU">>
\* "3 44FU UTSU": a pawn is dropped on 44.
LnDropPawn == <<"3", " ", "4", "4", "FU", "UTSU">>
\* "1 (F7)(K6)FU(77)"
LnPawn76 == <<"1", " ", "F7", "K6", "FU", "(", "7", "7", ")">>
\* "1 (F2)(K6)FU(27)"
LnPawn26 == <<"1", " ", "F2", "K6", "FU", "(", "2", "7", ")">>
\* "2 (F3)(K4)FU(33)"
LnPawn34 == <<"2", " ", "F3", "K4", "FU", "(", "3", "3", ")">>
\* "3 (F2)(K5)FU(26)"
LnPawn25 == <<"3", " ", "F2", "K5", "FU", "(", "2", "6", ")">>
\* "3 (F6)(K6)FU(67)"
LnPawn66 == <<"3", " ", "F6", "K6", "FU", "(", "6", "7", ")">>
\* "4 (F8)(K4)FU(83)"
LnPawn84 == <<"4", " ", "F8", "K4", "FU", "(", "8", "3", ")">>
\* "2 (F3)(K4)FU(30)": the source square has rank 0.
LnRankZero == <<"2", " ", "F3", "K4", "FU", "(", "3", "0", ")">>
\* "1 (F7)(K6)FU(07)": the source square has file 0.
LnFileZero == <<"1", " ", "F7", "K6", "FU", "(", "0", "7", ")">>
\* "2 (F5)(K5)FU(54)": the source square is empty.
LnEmptySource == <<"2", " ", "F5", "K5", "FU", "(", "5", "4", ")">>
\* "3 (F7)(K7)KA(88)": the bishop lands on a pawn of its own side.
LnOwnPiece == <<"3", " ", "F7", "K7", "KA", "(", "8", "8", ")">>
\* "2 3(K4)FU(33)": the destination mixes an ASCII and a kanji numeral.
LnMixed == <<"2", " ", "3", "K4", "FU", "(", "3", "3", ")">>
\* "1 (F7)0FU(77)": the destination has a digit 0.
LnDestZero == <<"1", " ", "F7", "0", "FU", "(", "7", "7", ")">>
\* "1 DOU FU(77)": same-square marker.
LnSame == <<"1", " ", "DOU", "IDSP", "FU", "(", "7", "7", ")">>
\* The variation markers for the moves 1 .. 4.
LnVariation(digit) == <<"HEN", "BAKE", "SEP", digit, "TE">>
\* "*c"
LnComment == <<"*", "c">>
\* "a(SEP)b"
LnHeader == <<"a", "SEP", "b">>
\* "a(SEP)b(SEP)c": a header whose value holds a separator.
LnHeaderTwo == <<"a", "SEP", "b", "SEP", "c">>
\* "start-move: n", "SHO KIKAN HYOU JI TE(SEP)n" and "# Start = n": start-move
\* directives.
LnStartMove(digit) ==
    <<"s", "t", "a", "r", "t", "-", "m", "o", "v", "e", ":", " ", digit>>
LnStartKanji(digit) == <<"SHO", "KIKAN", "HYOU", "JI", "TE", "SEP", digit>>
LnStartHash(digit) == <<"#", " ", "S", "t", "a", "r", "t", " ", "=", " ", digit>>
\* "*a(SEP)b": a comment that holds a separator.
LnCommentSep == <<"*", "a", "SEP", "b">>
\* "# x", "    " and "x 1"
LnHash == <<"#", " ", "x">>
LnBlank == <<" ", " ">>
LnJunk == <<"x", " ", "1">>

\* The lines the short texts are made of.
InputLines ==
    {LnCapture, LnRetake, LnDropBishop, LnDropPawn, LnPawn76, LnPawn34,
     LnRankZero, LnFileZero, LnEmptySource, LnOwnPiece, LnSame, LnMixed,
     LnDestZero,
     LnVariation("1"), LnVariation("2"), LnComment, LnHeader, LnHash,
     LnBlank, LnJunk}

\* A game with a capture, a recapture and drops, and a variation of move 2.
DocGame ==
    <<LnHeader, LnCapture, LnComment, LnRetake, LnDropBishop,
      LnVariation("2"), LnRookRetake, LnDropPawn>>

\* A main line, a variation of move 1 that skips move 2, a variation of move
\* 3 anchored in the main line and, nested in it, a variation of move 4.
DocTree ==
    <<LnPawn76, LnPawn34, LnVariation("1"), LnPawn26, LnPawn25,
      LnVariation("3"), LnPawn66, LnVariation("4"), LnPawn84>>

\* A main line whose second move has a source square off the board.
DocRankZero == <<LnPawn76, LnRankZero, LnPawn66>>

\* A move with two comments, the second with a separator in it.
DocNotes == <<LnPawn76, LnComment, LnCommentSep>>

\* Two headers of the same key, the second with a separator in its value.
DocHeaders == <<LnHeader, LnHeaderTwo, LnPawn76>>

\* A variation of move 2 after a variation of move 1: the root line and the
\* variation both have a move 1.
DocNested ==
    <<LnPawn76, LnVariation("1"), LnPawn26, LnVariation("2"), LnPawn34>>

\* A capture, and a drop of the piece taken on a piece of the other side.
DocDropCapture == <<LnCapture, LnDropOnPawn>>

\* A capture, and a drop written with the promoted kind.
DocDropPromoted == <<LnCapture, LnDropHorse>>

\* Start-move directives: for a move that only a variation has, for a move
\* that no line has, for move 0, for the move with the source square off
\* the board, and two directives in one text.
DocStartInVariation ==
    <<LnStartMove("3"), LnPawn76, LnPawn34, LnVariation("2"), LnEmptySource,
      LnPawn25>>
DocStartMissing == <<LnPawn76, LnStartKanji("4"), LnPawn34>>
DocStartZero == <<LnStartHash("0"), LnPawn76>>
DocStartRankZero == <<LnStartKanji("2"), LnPawn76, LnRankZero>>
DocStartTwice == <<LnStartHash("1"), LnStartMove("2"), LnPawn76, LnPawn34>>

\* More texts: a move to its own source square, followed by a move; a move
\* of the first side that lifts a piece of the second side; a pawn move
\* written as a bishop move; a gold with a promotion suffix; a declined
\* promotion and a line that names no piece; a move line that holds the
\* header separator; a comment between a variation marker and the first
\* move of the variation.
MoreDocuments ==
    LET LnStay == <<"1", " ", "F7", "K7", "FU", "(", "7", "7", ")">>
        LnForeign == <<"1", " ", "F3", "K4", "FU", "(", "3", "3", ")">>
        LnMiswritten == <<"1", " ", "F7", "K6", "KA", "(", "7", "7", ")">>
        LnGoldPromotes ==
            <<"1", " ", "F5", "K8", "KI", "MIGI", "NARI", "(", "4", "9", ")">>
        LnDeclines ==
            <<"1", " ", "F7", "K6", "FU", "NOT", "NARI", "(", "7", "7", ")">>
        LnNoPiece == <<"1", " ", "F7", "K6", "x", "(", "7", "7", ")">>
        LnMoveWithSeparator ==
            <<"2", " ", "F3", "K4", "FU", "(", "3", "3", ")", "SEP", "x">>
    IN  {<<LnStay, LnPawn34>>, <<LnForeign>>, <<LnMiswritten>>,
         <<LnGoldPromotes>>, <<LnDeclines, LnNoPiece>>,
         <<LnPawn76, LnMoveWithSeparator, LnJunk>>,
         <<LnPawn76, LnVariation("2"), LnComment>>}

\* The texts of at most n lines over InputLines.
RECURSIVE TextsUpTo(_)
TextsUpTo(n) ==
    IF n = 0 THEN {<<>>}
    ELSE LET shorter == TextsUpTo(n - 1)
         IN  shorter \cup {Append(t, l) : t \in shorter, l \in InputLines}

Documents ==
    TextsUpTo(MaxLines)
      \cup {DocGame, DocTree, DocRankZero, DocNotes, DocHeaders, DocNested,
            DocDropCapture, DocDropPromoted,
            DocStartInVariation, DocStartMissing, DocStartZero,
            DocStartRankZero, DocStartTwice}
      \cup MoreDocuments

\* The numbers a caller passes to goToMoveNumber: the integers
\* -1 .. MaxMoveNumber and, as <<FALSE, 0>>, a number that is not finite.
MoveNumbers == -1..MaxMoveNumber
GoToArguments == {<<TRUE, n>> : n \in MoveNumbers} \cup {<<FALSE, 0>>}

-----------------------------------------------------------------------------
(* The state machine.                                                      *)

Init ==
    /\ pc = "parsing"
    /\ input \in Documents
    /\ requestedInitialMove = RequestedInitialMove(input)
    /\ header = [x \in {} |-> <<>>]
    /\ lines = <<EmptyRoot>>
    /\ contextStack = <<[line |-> RootLine, prevMove |-> None]>>
    /\ board = initialBoard
    /\ hands = [B |-> <<>>, W |-> <<>>]
    /\ lastFrom = None
    /\ lastTo = None
    /\ latestMove = None
    /\ currentLine = RootLine
    /\ currentMoveIdx = 0
    /\ lineState = [x \in {} |-> 0]
    /\ availableVariations = <<>>
    /\ isPlaying = FALSE
    /\ autoPlayIntervalId = NoTimer
    /\ timers = {}
    /\ lastOp = [op |-> "none", ret |-> "void"]

\* The handler `op' ran from the current state, ended in out.view and
\* returned out.ret.
Handled(op, out) ==
    \E o \in {out} :
      /\ board' = o.view.board
      /\ hands' = o.view.hands
      /\ lastFrom' = o.view.lastFrom
      /\ lastTo' = o.view.lastTo
      /\ latestMove' = o.view.latestMove
      /\ currentLine' = o.view.currentLine
      /\ currentMoveIdx' = o.view.currentMoveIdx
      /\ lineState' = o.view.lineState
      /\ availableVariations' = o.view.availableVariations
      /\ isPlaying' = o.view.isPlaying
      /\ autoPlayIntervalId' = o.view.autoPlayIntervalId
      /\ timers' = o.view.timers
      /\ lastOp' = [op |-> op, ret |-> o.ret]
      /\ UNCHANGED <<requestedInitialMove, parserVars>>

\* A start of the viewer that pays no attention to the start-move
\* directive.
InitialPositionAtStart(v) == Outcome(v, "void")

\* if (requestedInitialMove !== undefined && !Number.isNaN(...)) {
\*   const success = goToMoveNumber(requestedInitialMove); ... }
\* returning success, on which the feedback depends ("void" with no
\* directive).
InitialPosition(v) ==
    IF IsSome(requestedInitialMove)
    THEN goToMoveNumber(v, TRUE, Val(requestedInitialMove))
    ELSE Outcome(v, "void")

\* The rest of renderKif once parseKif has returned: applyCurrent(0);
\* updateVariationUI(); and the jump to the requested initial move.
Render ==
    /\ pc = "parsed"
    /\ pc' = "viewing"
    /\ \E v0 \in {updateVariationUI(applyCurrent(View, 0))} :
         Handled("render", InitialPosition(v0))

Viewing == pc = "viewing" /\ pc' = pc

\* btnFirst.onclick and the Home key.
BtnFirst ==
    /\ Viewing
    /\ Handled("btnFirst",
               Outcome(updateVariationUI(applyCurrent(stopAutoplay(View), 0)),
                       "void"))

\* btnPrev.onclick and the ArrowLeft key.
BtnPrev ==
    /\ Viewing
    /\ Handled("btnPrev",
               Outcome(updateVariationUI(
                         applyCurrent(stopAutoplay(View),
                                      Max(0, currentMoveIdx - 1))),
                       "void"))

\* btnNext.onclick and the ArrowRight key.
BtnNext ==
    /\ Viewing
    /\ Handled("btnNext",
               Outcome(updateVariationUI(
                         applyCurrent(stopAutoplay(View),
                                      Min(Len(lines[currentLine].moves),
                                          currentMoveIdx + 1))),
                       "void"))

\* A step last that goes to the index of the last move, not past it.
BtnLastToLastIndex ==
    /\ Viewing
    /\ Handled("btnLast",
               Outcome(updateVariationUI(
                         applyCurrent(stopAutoplay(View),
                                      Len(lines[currentLine].moves) - 1)),
                       "void"))

\* btnLast.onclick and the End key.
BtnLast ==
    /\ Viewing
    /\ Handled("btnLast",
               Outcome(updateVariationUI(
                         applyCurrent(stopAutoplay(View),
                                      Len(lines[currentLine].moves))),
                       "void"))

\* btnPlayPause.onclick and the Space key.
BtnPlayPause ==
    /\ Viewing
    /\ Handled("btnPlayPause", Outcome(toggleAutoplay(View), "void"))

\* btnParent.onclick
BtnParent ==
    /\ Viewing
    /\ Handled("btnParent", Outcome(goToParent(View), "void"))

\* variationSelect.onchange with the option idx selected.
VariationSelect ==
    /\ Viewing
    /\ \E idx \in 1..Len(availableVariations) :
         Handled("variationSelect",
                 Outcome(switchToVariation(View, availableVariations[idx]),
                         "void"))

\* A click on a node of the move tree.
TreeClick ==
    /\ Viewing
    /\ \E ref \in JumpRefs :
         Handled("treeClick",
                 Outcome(jumpTo(View, ref.line, ref.moveIndex), "void"))

\* handleStartMoveApply with a number in the input field.
StartMoveApply ==
    /\ Viewing
    /\ \E arg \in GoToArguments :
         Handled("goToMoveNumber", goToMoveNumber(View, arg[1], arg[2]))

\* The window runs the callback of an armed interval.
AutoplayTick ==
    /\ Viewing
    /\ \E id \in timers :
         Handled("tick", Outcome(autoplayTick(View), "void"))

ParseStep ==
    \/ SkipLine
    \/ VariationMarkerLine
    \/ HeaderLine
    \/ CommentLine
    \/ MoveLine
    \/ UnmatchedLine
    \/ ParseReturn

Next ==
    \/ ParseStep
    \/ Render
    \/ BtnFirst
    \/ BtnPrev
    \/ BtnNext
    \/ BtnLast
    \/ BtnPlayPause
    \/ BtnParent
    \/ VariationSelect
    \/ TreeClick
    \/ StartMoveApply
    \/ AutoplayTick

Spec == Init /\ [][Next]_vars

\* The viewer left alone while autoplay runs: the user acts only while it is
\* stopped, and an armed interval keeps firing.
UserStep ==
    \/ BtnFirst
    \/ BtnPrev
    \/ BtnNext
    \/ BtnLast
    \/ BtnPlayPause
    \/ BtnParent
    \/ VariationSelect
    \/ TreeClick
    \/ StartMoveApply

NextAuto ==
    \/ ParseStep
    \/ Render
    \/ (~isPlaying /\ UserStep)
    \/ AutoplayTick

SpecAuto == Init /\ [][NextAuto]_vars /\ WF_vars(AutoplayTick)

-----------------------------------------------------------------------------
(* Vocabulary of the properties.                                           *)

\* Some line of the tree holds a move numbered n.
NumberExists(n) ==
    \E l \in 1..Len(lines) : FindNumber(lines[l].moves, n) > 0

\* The lines of the tree in depth-first order from `line': the line, then
\* the subtrees of the variations of its moves in move order, then the
\* subtrees of its leadVariations.
RECURSIVE DepthFirst(_), DepthFirstOfList(_, _)
DepthFirst(line) ==
    <<line>>
      \o DepthFirstOfList(MoveVariationsFrom(lines[line].moves, 1), 1)
      \o DepthFirstOfList(lines[line].leadVariations, 1)

DepthFirstOfList(vs, j) ==
    IF j > Len(vs) THEN <<>>
    ELSE DepthFirst(vs[j]) \o DepthFirstOfList(vs, j + 1)

\* The first line of `order' that holds a move numbered n (0 when none).
FirstLineWith(order, n) ==
    LET hits == {i \in 1..Len(order) : FindNumber(lines[order[i]].moves, n) > 0}
    IN  IF hits = {} THEN 0
        ELSE order[CHOOSE i \in hits : \A j \in hits : i <= j]

\* This step is the call goToMoveNumber(moveNumber) from the input field.
IsGoToMoveNumber(finite, moveNumber) ==
    /\ pc = "viewing"
    /\ lastOp'.op = "goToMoveNumber"
    /\ Handled("goToMoveNumber", goToMoveNumber(View, finite, moveNumber))

\* This step is the handler named op.
Ran(op) == pc = "viewing" /\ lastOp'.op = op

\* A replay in which a move that cannot be carried out is skipped.
RECURSIVE ReplaySkippingFrom(_, _, _)
ReplaySkippingFrom(rs, sequence, i) ==
    IF i > Len(sequence) THEN rs
    ELSE LET next == ReplayMove(rs, sequence[i])
         IN  ReplaySkippingFrom(IF next.threw THEN rs ELSE next,
                                sequence, i + 1)

-----------------------------------------------------------------------------
(* The claims.                                                             *)

\* C1: in every state the viewer reaches, board and hands are the result of
\* replaying gatherMoves(currentLine, currentMoveIdx) from the starting
\* layout with empty hands, every move of the sequence having been replayed
\* (one that cannot be carried out being a no-op).
C1_BoardIsReplayOfCursor ==
    pc = "viewing" =>
      LET rs == ReplaySkippingFrom(ReplayStart,
                                   gatherMoves(currentLine, currentMoveIdx), 1)
      IN  board = rs.board /\ hands = rs.hands

\* C2: goToMoveNumber(n), n >= 1, returns true exactly when some line holds a
\* move numbered n, and then the cursor is on the first such line in
\* depth-first order, right after its first move numbered n.
C2_GoToMoveNumberFindsFirst ==
    [][\A n \in 1..MaxMoveNumber :
         IsGoToMoveNumber(TRUE, n) =>
           /\ lastOp'.ret = "true" <=> NumberExists(n)
           /\ lastOp'.ret = "true" =>
                /\ currentLine' = FirstLineWith(DepthFirst(RootLine), n)
                /\ currentMoveIdx' = FindNumber(lines[currentLine'].moves, n)
                /\ lines[currentLine'].moves[currentMoveIdx'].n = n]_vars

\* C3: goToMoveNumber for a number that is in no line, is negative or is not
\* finite returns false and leaves the cursor, the board, the hands, the
\* last-move highlight and the per-line memory as they were.
C3_MissLeavesStateUnchanged ==
    [][\A arg \in GoToArguments :
         (/\ LET finite == arg[1]
                 n == arg[2]
             IN  ~finite \/ n < 0 \/ (n >= 1 /\ ~NumberExists(n))
          /\ IsGoToMoveNumber(arg[1], arg[2]))
           => /\ lastOp'.ret = "false"
              /\ UNCHANGED <<currentLine, currentMoveIdx, board, hands,
                             lastFrom, lastTo, latestMove, lineState>>]_vars

\* C3, witness: a miss was reported away from the start of a variation.
C3_Witness ==
    /\ lastOp = [op |-> "goToMoveNumber", ret |-> "false"]
    /\ currentLine # RootLine
    /\ currentMoveIdx > 0

\* C4: the index stays within 0 .. currentLine.moves.length; step forward
\* and step back move it by exactly one unless it is at the end or the
\* start, step first sets it to 0, step last to the length, and none of the
\* four changes currentLine.
C4_IndexInLine ==
    /\ [](pc = "viewing" =>
            /\ 0 <= currentMoveIdx
            /\ currentMoveIdx <= Len(lines[currentLine].moves))
    /\ [][LET len == Len(lines[currentLine].moves)
          IN  /\ Ran("btnNext") =>
                   /\ currentMoveIdx' =
                        IF currentMoveIdx < len THEN currentMoveIdx + 1
                        ELSE currentMoveIdx
                   /\ currentLine' = currentLine
              /\ Ran("btnPrev") =>
                   /\ currentMoveIdx' =
                        IF currentMoveIdx > 0 THEN currentMoveIdx - 1
                        ELSE currentMoveIdx
                   /\ currentLine' = currentLine
              /\ Ran("btnFirst") =>
                   currentMoveIdx' = 0 /\ currentLine' = currentLine
              /\ Ran("btnLast") =>
                   currentMoveIdx' = len /\ currentLine' = currentLine]_vars

\* C4, witness: step last ran on a variation of at least two moves.
C4_Witness ==
    /\ lastOp.op = "btnLast"
    /\ currentLine # RootLine
    /\ currentMoveIdx = Len(lines[currentLine].moves)
    /\ currentMoveIdx >= 2

\* A parse step that reads a line of no recognised shape, or a move line
\* whose move does not decode.
ReadsMalformedLine ==
    /\ pc = "parsing"
    /\ Len(input) > 0
    /\ LET class == LineClass(Head(input))
       IN  \/ class = "none"
           \/ /\ class = "move"
              /\ ~IsSome(DecodeMove(MatchMove(TrimEnd(Head(input))),
                                    contextStack[Len(contextStack)]))

\* C5: parseKif never throws and its root has startMoveNumber 1 and no
\* parent; a line of no recognised shape, or a move line whose move does not
\* decode, changes neither the header nor the tree nor the context stack, and
\* parsing goes on with the next line.
C5_ParserSkipsMalformedLines ==
    /\ [](/\ pc # "parseThrew"
          /\ lines[RootLine].startMoveNumber = 1
          /\ lines[RootLine].parent = None)
    /\ [][ReadsMalformedLine =>
            /\ UNCHANGED <<header, lines, contextStack>>
            /\ pc' = "parsing"
            /\ input' = Tail(input)]_vars

\* C5, witness: after a variation marker whose anchor move does not exist
\* was attached to the root, a same-square move with no previous move was
\* dropped.
C5_Witness ==
    /\ lastOp = [op |-> "parseLine", ret |-> "dropped"]
    /\ Len(lines) = 2
    /\ lines[2].startMoveNumber = 2
    /\ lines[2].parent = Some([line |-> RootLine, anchorMoveCount |-> 0])

\* C6: no handler ends in an exception thrown by the replay.
C6_ReplayNeverThrows == lastOp.ret # "throw"

\* C7: a tick of the autoplay timer keeps currentLine and either advances
\* currentMoveIdx by exactly one or, at the end of the line, stops autoplay
\* and leaves the index; and once autoplay runs with no user operation it
\* eventually stops with the index at the end of the line.
C7_AutoplayRunsToTheEnd ==
    /\ [][Ran("tick") =>
            LET len == Len(lines[currentLine].moves)
            IN  /\ currentLine' = currentLine
                /\ \/ /\ currentMoveIdx < len
                      /\ currentMoveIdx' = currentMoveIdx + 1
                   \/ /\ currentMoveIdx >= len
                      /\ currentMoveIdx' = currentMoveIdx
                      /\ ~isPlaying']_vars
    /\ (isPlaying ~>
          (~isPlaying /\ currentMoveIdx = Len(lines[currentLine].moves)))

\* C7, witness: a tick took a variation of at least two moves to its end and
\* autoplay stopped.
C7_Witness ==
    /\ lastOp.op = "tick"
    /\ ~isPlaying
    /\ currentLine # RootLine
    /\ currentMoveIdx = Len(lines[currentLine].moves)
    /\ currentMoveIdx >= 2

\* C8: at most one interval is armed, and one is armed exactly when isPlaying
\* is true, and it is autoPlayIntervalId; so a tick that runs while autoplay
\* is stopped changes neither the cursor nor the board nor the hands.
C8_TimerArmedIffPlaying ==
    /\ [](/\ Cardinality(timers) <= 1
          /\ isPlaying <=> timers # {}
          /\ isPlaying => timers = {autoPlayIntervalId})
    /\ [][(Ran("tick") /\ ~isPlaying) =>
            UNCHANGED <<currentLine, currentMoveIdx, board, hands>>]_vars

\* C8, witness: autoplay was paused in the middle of a line.
C8_Witness ==
    /\ lastOp.op = "btnPlayPause"
    /\ ~isPlaying
    /\ timers = {}
    /\ currentMoveIdx >= 1
    /\ currentMoveIdx < Len(lines[currentLine].moves)

\* The chain of a line: for each ancestor from the root down, the ancestor
\* and the number of its moves before the anchor point.
RECURSIVE Ancestry(_)
Ancestry(line) ==
    LET parent == lines[line].parent
    IN  IF ~IsSome(parent) THEN <<>>
        ELSE Append(Ancestry(Val(parent).line),
                    [line |-> Val(parent).line,
                     count |-> Min(Val(parent).anchorMoveCount,
                                   Len(lines[Val(parent).line].moves))])

\* The moves of the segments segs[i], segs[i+1], ... one after the other.
RECURSIVE MovesOfSegments(_, _)
MovesOfSegments(segs, i) ==
    IF i > Len(segs) THEN <<>>
    ELSE Prefix(segs[i].line, segs[i].count) \o MovesOfSegments(segs, i + 1)

\* C9: gatherMoves(line, k) is gatherMoves of the parent line up to the
\* anchor point followed by the first min(k, length) moves of line, and just
\* that prefix for the root; that is, the moves of every ancestor up to its
\* anchor point, from the root down, followed by line.moves[0..k).
C9_GatherMovesIsAncestorChain ==
    \A line \in 1..Len(lines) :
      \A k \in 0..(Len(lines[line].moves) + 1) :
        LET own == Prefix(line, Min(k, Len(lines[line].moves)))
            parent == lines[line].parent
        IN  /\ gatherMoves(line, k) =
                 (IF IsSome(parent)
                  THEN gatherMoves(Val(parent).line,
                                   Val(parent).anchorMoveCount)
                  ELSE <<>>) \o own
            /\ gatherMoves(line, k) =
                 MovesOfSegments(Ancestry(line), 1) \o own

\* C9, witness: the cursor is in a variation of a variation, past moves of
\* the root line and of the variation between.
C9_Witness ==
    /\ pc = "viewing"
    /\ currentMoveIdx >= 1
    /\ IsSome(lines[currentLine].parent)
    /\ LET parent == Val(lines[currentLine].parent)
       IN  /\ parent.anchorMoveCount >= 1
           /\ IsSome(lines[parent.line].parent)
           /\ Val(lines[parent.line].parent).anchorMoveCount >= 1
    /\ latestMove = Some(<<currentLine, currentMoveIdx>>)

\* The number of pieces on a board, and of pieces of a kind in a hand.
PiecesOn(b) ==
    Cardinality({sq \in Coords \X Coords : b[sq[1]][sq[2]] # NoPiece})
CountIn(hand, kind) == Cardinality({i \in 1..Len(hand) : hand[i] = kind})

\* The side a move belongs to, by the parity of its number.
SideOf(mv) == IF mv.n % 2 = 1 THEN "B" ELSE "W"

\* The move ends the replay: its source square has no rank on the board.
Aborts(mv) == ~mv.drop /\ IsSome(mv.from) /\ Val(mv.from).r \notin Coords

\* The move is carried out on the position rs: it is a drop, or it has a
\* source square with a piece on it.
Carried(rs, mv) ==
    \/ mv.drop
    \/ /\ IsSome(mv.from)
       /\ Val(mv.from).r \in Coords
       /\ CellAt(rs.board, Val(mv.from)) # NoPiece

\* What the moving piece finds on its destination.
TargetOf(rs, mv) ==
    IF ~mv.drop /\ Val(mv.from) = mv.to THEN NoPiece
    ELSE CellAt(rs.board, mv.to)

\* The account of a replay: drops of a kind the hand did not hold
\* (unbacked), pieces lost under a piece of the side to move (lost), and per
\* side the kinds taken, in demoted form, and the kinds dropped from the hand.
NoTally ==
    [unbacked |-> 0, lost |-> 0,
     taken |-> [B |-> <<>>, W |-> <<>>], spent |-> [B |-> <<>>, W |-> <<>>]]

TallyMove(t, rs, mv) ==
    LET side == SideOf(mv)
        target == TargetOf(rs, mv)
        backed == mv.drop /\ CountIn(rs.hands[side], demoteKind(mv.kind)) > 0
        t1 == IF mv.drop /\ ~backed THEN [t EXCEPT !.unbacked = @ + 1]
              ELSE IF backed
              THEN [t EXCEPT !.spent[side] = Append(@, demoteKind(mv.kind))]
              ELSE t
    IN  IF target = NoPiece THEN t1
        ELSE IF target.side = side THEN [t1 EXCEPT !.lost = @ + 1]
        ELSE [t1 EXCEPT !.taken[side] = Append(@, demoteKind(target.kind))]

RECURSIVE TallyFrom(_, _, _, _)
TallyFrom(t, rs, sequence, i) ==
    IF i > Len(sequence) \/ Aborts(MoveAt(sequence[i])) THEN t
    ELSE LET mv == MoveAt(sequence[i])
         IN  TallyFrom(IF Carried(rs, mv) THEN TallyMove(t, rs, mv) ELSE t,
                       ReplayMove(rs, sequence[i]), sequence, i + 1)

\* The cursor is at the end of the root line.
AtEndOfRoot ==
    /\ pc = "viewing"
    /\ currentLine = RootLine
    /\ currentMoveIdx = Len(lines[RootLine].moves)

\* C10 as stated: after the replay of the complete root line the board holds
\* 40 pieces less the pieces in the two hands.
C10_BoardIsFortyLessHands ==
    AtEndOfRoot => PiecesOn(board) = 40 - (Len(hands.B) + Len(hands.W))

\* C10, amended: after the replay of the complete root line the pieces on
\* the board and in the two hands are 40, plus one for each drop of a kind
\* the hand did not hold, less one for each move that landed on a piece of
\* the side to move; and each hand holds, for every kind, the pieces its
\* side took (demoted) less the ones it dropped.
C10_PiecesAccountedFor ==
    AtEndOfRoot =>
      LET t == TallyFrom(NoTally, ReplayStart,
                         gatherMoves(RootLine, Len(lines[RootLine].moves)), 1)
      IN  /\ PiecesOn(board) + Len(hands.B) + Len(hands.W) =
               40 + t.unbacked - t.lost
          /\ \A side \in Sides, kind \in PieceKinds :
               CountIn(hands[side], kind) =
                 CountIn(t.taken[side], kind) - CountIn(t.spent[side], kind)
          /\ \A side \in Sides : \A i \in 1..Len(hands[side]) :
               demoteKind(hands[side][i]) = hands[side][i]

\* C10, witness: the root line took a piece and then dropped a kind that was
\* not in the hand.
C10_Witness ==
    /\ AtEndOfRoot
    /\ lastOp.op = "btnLast"
    /\ Len(hands.B) = 1
    /\ PiecesOn(board) = 40

\* The line was declared with N = 1: it hangs under the root with no anchor
\* move.
DeclaredAtMoveOne(line) ==
    /\ lines[line].startMoveNumber = 1
    /\ lines[line].parent = Some([line |-> RootLine, anchorMoveCount |-> 0])

\* C11 as stated: goToParent from a variation declared with N = 1 lands at
\* index 0 of the root line, whatever navigation preceded it.
C11_ParentOfMoveOneIsIndexZero ==
    [][(Ran("btnParent") /\ DeclaredAtMoveOne(currentLine)) =>
         (currentLine' = RootLine /\ currentMoveIdx' = 0)]_vars

\* C11, amended: goToParent from a variation declared with N = 1 lands on
\* the root line at the index remembered for the root line, which the root
\* line always has once the viewer is rendered.
C11_ParentOfMoveOneIsRememberedIndex ==
    [][(Ran("btnParent") /\ DeclaredAtMoveOne(currentLine)) =>
         /\ RootLine \in DOMAIN lineState
         /\ currentLine' = RootLine
         /\ currentMoveIdx' = lineState[RootLine]]_vars

\* C11, witness: a variation declared with N = 1 was visited past its first
\* move, and goToParent has put the cursor on the root line past its first
\* move.
C11_Witness ==
    /\ lastOp.op = "btnParent"
    /\ currentLine = RootLine
    /\ currentMoveIdx >= 1
    /\ \E line \in 2..Len(lines) :
         /\ DeclaredAtMoveOne(line)
         /\ line \in DOMAIN lineState
         /\ lineState[line] >= 1

\* The next line of the text is a variation marker with number n.
ReadsVariationMarker(n) ==
    /\ pc = "parsing"
    /\ Len(input) > 0
    /\ LineClass(Head(input)) = "variation"
    /\ ParseInt(Val(MatchVariation(Trim(Head(input))))) = n

\* No line of the context stack has a move numbered n.
InNoContext(n) ==
    \A i \in 1..Len(contextStack) :
      \A j \in 1..Len(lines[contextStack[i].line].moves) :
        lines[contextStack[i].line].moves[j].n # n

\* The next line of the text is a move line that decodes.
ReadsMove ==
    /\ pc = "parsing"
    /\ Len(input) > 0
    /\ LineClass(Head(input)) = "move"
    /\ IsSome(DecodeMove(MatchMove(TrimEnd(Head(input))),
                         contextStack[Len(contextStack)]))

\* C12: a variation marker with N = 1, or whose target move N - 1 is in no
\* line of the context stack, adds a line with startMoveNumber N, no moves
\* and parent {root line, anchorMoveCount 0} at the end of the root's
\* leadVariations and changes nothing else of the tree; the parse goes on,
\* the new line is the innermost context, and a move line that follows is
\* appended to the line of the innermost context.
C12_UnanchoredMarkerHangsUnderRoot ==
    /\ [][\A n \in 1..MaxMoveNumber :
            (ReadsVariationMarker(n) /\ (n = 1 \/ InNoContext(n - 1))) =>
              LET id == Len(lines) + 1
              IN  /\ pc' = "parsing"
                  /\ Len(lines') = id
                  /\ lines'[id] =
                       [startMoveNumber |-> n, moves |-> <<>>,
                        parent |-> Some([line |-> RootLine,
                                         anchorMoveCount |-> 0]),
                        leadVariations |-> <<>>]
                  /\ lines'[RootLine] =
                       [lines[RootLine] EXCEPT
                          !.leadVariations = Append(@, id)]
                  /\ \A l \in 2..Len(lines) : lines'[l] = lines[l]
                  /\ contextStack'[Len(contextStack')].line = id]_vars
    /\ [][ReadsMove =>
            LET line == contextStack[Len(contextStack)].line
            IN  /\ Len(lines'[line].moves) = Len(lines[line].moves) + 1
                /\ \A l \in 1..Len(lines) :
                     l # line => lines'[l] = lines[l]]_vars

\* C12, witness: a marker for move 2 in a text with no move 1 made the line
\* under the root, and the move line after it went to that line.
C12_Witness ==
    /\ lastOp = [op |-> "parseLine", ret |-> "move"]
    /\ Len(lines) = 2
    /\ lines[RootLine].moves = <<>>
    /\ lines[RootLine].leadVariations = <<2>>
    /\ lines[2].startMoveNumber = 2
    /\ lines[2].parent = Some([line |-> RootLine, anchorMoveCount |-> 0])
    /\ Len(lines[2].moves) = 1

\* The position the replay has reached before the move at place i of
\* sequence.
Before(sequence, i) == Replay(SubSeq(sequence, 1, i - 1))

\* The other side.
Opponent(side) == IF side = "B" THEN "W" ELSE "B"

\* The replay of the drop mv = MoveAt(ref) on the position rs does not
\* raise, leaves a piece of the side to move on the destination, leaves the
\* other side's hand as it is and takes from the hand of the side to move one
\* entry of the dropped kind when it holds one and nothing otherwise (a piece
\* taken on the destination comes on top).
DropTakesOnlyItsKind(rs, ref) ==
    LET mv == MoveAt(ref)
        side == SideOf(mv)
        kind == demoteKind(mv.kind)
        after == ReplayMove(rs, ref)
        target == CellAt(rs.board, mv.to)
        taken == IF target # NoPiece /\ target.side # side
                 THEN <<demoteKind(target.kind)>> ELSE <<>>
        held == CountIn(rs.hands[side], kind) > 0
    IN  /\ ~after.threw
        /\ CellAt(after.board, mv.to) # NoPiece
        /\ CellAt(after.board, mv.to).side = side
        /\ after.hands[Opponent(side)] = rs.hands[Opponent(side)]
        /\ Len(after.hands[side]) =
             Len(rs.hands[side]) + Len(taken) - (IF held THEN 1 ELSE 0)
        /\ \A k \in PieceKinds :
             CountIn(after.hands[side], k) =
               CountIn(rs.hands[side], k) + CountIn(taken, k)
                 - (IF held /\ k = kind THEN 1 ELSE 0)

\* C13: in every replay the viewer makes, each drop places its piece without
\* raising; when the hand of the side to move does not hold the (demoted)
\* kind nothing is removed from either hand, and when it does exactly one
\* entry of that kind is removed from that hand and no other entry.
C13_DropRemovesAtMostItsKind ==
    pc = "viewing" =>
      LET sequence == gatherMoves(currentLine, currentMoveIdx)
      IN  \A i \in 1..Len(sequence) :
            (MoveAt(sequence[i]).drop /\ ~Before(sequence, i).threw) =>
              DropTakesOnlyItsKind(Before(sequence, i), sequence[i])

\* C13, witness: a pawn was dropped from a hand that held only a bishop; the
\* pawn is on the board and the bishop still in the hand.
C13_Witness ==
    /\ pc = "viewing"
    /\ IsSome(latestMove)
    /\ MoveAt(Val(latestMove)).drop
    /\ MoveAt(Val(latestMove)).kind = "FU"
    /\ hands.B = <<"KA">>
    /\ board[4][4] = [side |-> "B", kind |-> "FU"]

\* The next line of the text is a move line written with the same-square
\* marker.
ReadsSameSquareMove ==
    /\ pc = "parsing"
    /\ Len(input) > 0
    /\ LineClass(Head(input)) = "move"
    /\ StripSpaces(MatchMove(TrimEnd(Head(input))).m2) = <<"DOU">>

\* The previous move of the context of a line: its last move, for a line
\* with no move yet its anchor move, and None when it has neither.
PreviousMove(line) ==
    LET parent == lines[line].parent
    IN  IF Len(lines[line].moves) > 0
        THEN Some(lines[line].moves[Len(lines[line].moves)])
        ELSE IF IsSome(parent) /\ Val(parent).anchorMoveCount >= 1
        THEN Some(lines[Val(parent).line].moves[Val(parent).anchorMoveCount])
        ELSE None

\* C14: a move line written with the same-square marker is appended to the
\* line of the innermost context with the destination of that context's
\* previous move (the anchor move for a variation with no move yet); when
\* there is no previous move the line is dropped: the tree and the context
\* stack stay as they are and the parse goes on.
C14_SameSquareCopiesPreviousDestination ==
    [][ReadsSameSquareMove =>
         LET line == contextStack[Len(contextStack)].line
             previous == PreviousMove(line)
             count == Len(lines[line].moves)
         IN  /\ pc' = "parsing"
             /\ input' = Tail(input)
             /\ IF IsSome(previous)
                THEN /\ Len(lines'[line].moves) = count + 1
                     /\ SubSeq(lines'[line].moves, 1, count) =
                          lines[line].moves
                     /\ lines'[line].moves[count + 1].to = Val(previous).to
                ELSE UNCHANGED <<lines, contextStack>>]_vars

\* C14, witness: the first move of a variation was written with the
\* same-square marker and has the destination of the anchor move.
C14_Witness ==
    /\ lastOp = [op |-> "parseLine", ret |-> "move"]
    /\ Len(lines) >= 2
    /\ LET line == lines[Len(lines)]
       IN  /\ Len(line.moves) = 1
           /\ line.moves[1].rawTo = <<"DOU">>
           /\ Val(line.parent).anchorMoveCount >= 1
           /\ line.moves[1].to =
                lines[Val(line.parent).line]
                  .moves[Val(line.parent).anchorMoveCount].to

\* C15: in every line of the tree the move numbers are contiguous from the
\* line's start: the move at place i (from 1) has number
\* startMoveNumber + i - 1.
C15_MoveNumbersContiguous ==
    \A line \in 1..Len(lines) :
      \A i \in 1..Len(lines[line].moves) :
        lines[line].moves[i].n = lines[line].startMoveNumber + i - 1

\* C16: a line listed in the variations of the move at place i of a line has
\* that line as parent line, i as anchorMoveCount and a startMoveNumber one
\* above the move's number; a line listed in leadVariations has
\* anchorMoveCount 0 and the listing line as parent line; and only the root
\* line has leadVariations.
C16_ParentLinksMatchAttachment ==
    /\ \A line \in 1..Len(lines) :
         \A i \in 1..Len(lines[line].moves) :
           LET m == lines[line].moves[i]
           IN  \A j \in 1..Len(m.variations) :
                 /\ m.variations[j] \in 1..Len(lines)
                 /\ lines[m.variations[j]].parent =
                      Some([line |-> line, anchorMoveCount |-> i])
                 /\ m.n = lines[m.variations[j]].startMoveNumber - 1
    /\ \A line \in 1..Len(lines) :
         \A j \in 1..Len(lines[line].leadVariations) :
           /\ lines[line].leadVariations[j] \in 1..Len(lines)
           /\ lines[lines[line].leadVariations[j]].parent =
                Some([line |-> line, anchorMoveCount |-> 0])
    /\ \A line \in 2..Len(lines) : lines[line].leadVariations = <<>>

\* C16, witness: the parsed tree has a variation of the second move of a
\* line and a line under the root with no anchor move.
C16_Witness ==
    /\ pc = "parsed"
    /\ \E line \in 1..Len(lines) :
         /\ Len(lines[line].moves) >= 2
         /\ lines[line].moves[2].variations # <<>>
    /\ lines[RootLine].leadVariations # <<>>

\* The number of times line is listed in the variations of a move or in the
\* leadVariations of container.
ListingsIn(container, line) ==
    Cardinality({j \in 1..Len(lines[container].leadVariations) :
                   lines[container].leadVariations[j] = line})
      + Cardinality(
          {ij \in (1..Len(lines[container].moves)) \X (1..Len(lines)) :
             /\ ij[2] <= Len(lines[container].moves[ij[1]].variations)
             /\ lines[container].moves[ij[1]].variations[ij[2]] = line})

\* The lines met by following parent links from line, at most `steps' of
\* them.
RECURSIVE ParentChain(_, _)
ParentChain(line, steps) ==
    IF steps = 0 \/ ~IsSome(lines[line].parent) THEN <<line>>
    ELSE <<line>> \o ParentChain(Val(lines[line].parent).line, steps - 1)

\* C17: the root line has no parent; every other line has a parent, is
\* listed exactly once in it and in no other line, and its parent links
\* lead to the root line without meeting a line twice.
C17_LinksFormATree ==
    /\ lines[RootLine].parent = None
    /\ \A line \in 1..Len(lines) : ListingsIn(line, RootLine) = 0
    /\ \A line \in 2..Len(lines) :
         /\ IsSome(lines[line].parent)
         /\ Val(lines[line].parent).line \in 1..Len(lines)
         /\ \A container \in 1..Len(lines) :
              ListingsIn(container, line) =
                IF container = Val(lines[line].parent).line THEN 1 ELSE 0
         /\ LET chain == ParentChain(line, Len(lines))
            IN  /\ chain[Len(chain)] = RootLine
                /\ \A a, b \in 1..Len(chain) : chain[a] = chain[b] => a = b

\* C17, witness: the parsed tree has a variation inside a variation of a
\* move of the root line, and a line under the root with no anchor move.
C17_Witness ==
    /\ pc = "parsed"
    /\ lines[RootLine].leadVariations # <<>>
    /\ \E line \in 2..Len(lines) :
         LET parent == Val(lines[line].parent).line
         IN  /\ parent # RootLine
             /\ Val(lines[parent].parent).anchorMoveCount >= 1

\* The kinds of the type PieceKind: the unpromoted ones, the promoted ones
\* and those with no counterpart.
UnpromotedKinds == {"FU", "KY", "KE", "GI", "KI", "KA", "HI", "GY", "OU"}
PromotedKinds == {"TO", "NY", "NK", "NG", "UM", "RY"}
LoneKinds == {"KI", "GY", "OU"}

\* The kinds of the pieces on the board and in the hands.
KindsInPlay ==
    ({board[r][f].kind : r \in Coords, f \in Coords} \ {NoPiece.kind})
      \cup {hands.B[i] : i \in 1..Len(hands.B)}
      \cup {hands.W[i] : i \in 1..Len(hands.W)}

\* C18, for every kind of the type and every kind the replay has put on the
\* board or in a hand: demoteKind undoes promoteKind on every unpromoted
\* kind, promoteKind undoes demoteKind on every promoted kind, and both
\* leave the kinds with no counterpart as they are.
C18_PromoteAndDemoteAreInverse ==
    \A k \in PieceKinds \cup KindsInPlay :
      /\ k \in UnpromotedKinds \cup PromotedKinds
      /\ k \in UnpromotedKinds => demoteKind(promoteKind(k)) = k
      /\ k \in PromotedKinds => promoteKind(demoteKind(k)) = k
      /\ k \in LoneKinds => promoteKind(k) = k /\ demoteKind(k) = k

\* C18, witness: the replay has promoted a bishop on 22 and, on its capture
\* there, put it back as a bishop into the hand of the capturing side.
C18_Witness ==
    /\ pc = "viewing"
    /\ lastOp.ret # "throw"
    /\ board[2][2].side = "W"
    /\ \E i \in 1..Len(hands.W) : hands.W[i] = "KA"
    /\ \E i \in 1..Len(hands.B) : hands.B[i] = "KA"

\* The places of the moves of a tree.
Refs(ls) ==
    UNION {{<<line, i>> : i \in 1..Len(ls[line].moves)} :
             line \in 1..Len(ls)}

\* The numerals of the three alphabets and the number each one stands for.
NumeralsOf(v) ==
    {<<"1", "2", "3", "4", "5", "6", "7", "8", "9">>[v],
     JP_NUM_FULL[v], JP_NUM_KANJI[v]}
IsNumeral(ch) == \E v \in 1..9 : ch \in NumeralsOf(v)
NumeralValue(ch) == CHOOSE v \in 1..9 : ch \in NumeralsOf(v)

\* Where the destination of a move line starts: after the white space, the
\* move number and the white space behind it.
DestinationStart(raw) ==
    RunEnd(raw, RunEnd(raw, RunEnd(raw, 1, Spaces) + 1, Digits) + 1, Spaces)
      + 1

\* C19: every move of the tree has a destination with file and rank in
\* 1 .. 9; a move read from a line whose destination is two numerals, of any
\* of the three alphabets, has the file of the first and the rank of the
\* second; and a line whose destination is neither two such numerals nor
\* the same-square marker adds no move.
C19_DestinationsOnBoard ==
    /\ [](\A ref \in Refs(lines) :
            /\ MoveAt(ref).to.f \in 1..9
            /\ MoveAt(ref).to.r \in 1..9)
    /\ [][pc = "parsing" /\ Len(input) > 0 =>
            LET raw == TrimEnd(Head(input))
                p == DestinationStart(raw)
                two == IsNumeral(At(raw, p)) /\ IsNumeral(At(raw, p + 1))
            IN  /\ At(raw, p) # "DOU" /\ ~two => Refs(lines') = Refs(lines)
                /\ two =>
                     \A ref \in Refs(lines') \ Refs(lines) :
                       lines'[ref[1]].moves[ref[2]].to =
                         [f |-> NumeralValue(At(raw, p)),
                          r |-> NumeralValue(At(raw, p + 1))]]_vars

\* C19, witness: the text had a move to "3(K4)", now the only move of the
\* tree and on 34, and then a line that added no move.
C19_Witness ==
    /\ pc = "parsing"
    /\ lastOp = [op |-> "parseLine", ret |-> "unmatched"]
    /\ Len(lines) = 1
    /\ Len(lines[RootLine].moves) = 1
    /\ lines[RootLine].moves[1].rawTo = <<"3", "K4">>
    /\ lines[RootLine].moves[1].to = [f |-> 3, r |-> 4]

\* C20: every source square of a move of the tree has file and rank in
\* 1 .. 9.
C20_SourceSquaresOnBoard ==
    \A ref \in Refs(lines) :
      IsSome(MoveAt(ref).from) =>
        /\ Val(MoveAt(ref).from).f \in 1..9
        /\ Val(MoveAt(ref).from).r \in 1..9

\* The parser is about to read a line.
ReadsLine == pc = "parsing" /\ Len(input) > 0

\* The innermost context has read a move line: its previous move is the last
\* move of its own line.
FollowsMove ==
    LET ctx == contextStack[Len(contextStack)]
    IN  /\ Len(lines[ctx.line].moves) > 0
        /\ ctx.prevMove = Some(<<ctx.line, Len(lines[ctx.line].moves)>>)

\* C21: a line that starts with '*' and follows a move line of the same
\* context changes the tree in the comment of that move only, which gets the
\* text behind the marker, trimmed, after a newline when the move has a
\* comment already.
C21_CommentGoesToPrecedingMove ==
    [][ReadsLine /\ StartsWith(Trim(Head(input)), <<"*">>) /\ FollowsMove =>
         LET ref == Val(contextStack[Len(contextStack)].prevMove)
             old == MoveAt(ref).comment
             text == Trim(Slice(Trim(Head(input)), 2))
         IN  lines' =
               [lines EXCEPT ![ref[1]].moves[ref[2]].comment =
                  Some(IF IsSome(old) /\ Val(old) # <<>>
                       THEN Val(old) \o <<"\n">> \o text
                       ELSE text)]]_vars

\* The text before the first separator of s and the text behind it.
BeforeSeparator(s) == SubSeq(s, 1, IndexFrom(s, "SEP", 1) - 1)
AfterSeparator(s) == Slice(s, IndexFrom(s, "SEP", 1) + 1)

\* C22: a header line with a key and a value stores, under the trimmed text
\* before its first separator, the whole trimmed text behind that separator,
\* in place of an earlier value of the key, keeps the other keys and leaves
\* the tree and the parse contexts as they are.
C22_HeaderSplitsAtFirstSeparator ==
    [][ReadsLine /\ LineClass(Head(input)) = "header" =>
         LET trimmed == Trim(Head(input))
             key == Trim(BeforeSeparator(trimmed))
             value == Trim(AfterSeparator(trimmed))
         IN  /\ UNCHANGED <<lines, contextStack>>
             /\ key # <<>> /\ value # <<>> =>
                  /\ DOMAIN header' = DOMAIN header \cup {key}
                  /\ header'[key] = value
                  /\ \A k \in DOMAIN header \ {key} : header'[k] = header[k]]_vars

\* C23: the index remembered for the line of the cursor is the index of the
\* cursor; a step of the viewer keeps what is remembered for every line but
\* the one it puts the cursor on, and adds no other line to the remembered
\* ones; switchToVariation lands at the index remembered for the variation,
\* at 0 when none is; goToParent lands on the parent line at the index
\* remembered for it, at the anchorMoveCount of the line it leaves when none
\* is.
C23_LineMemoryIsRestored ==
    /\ [](pc = "viewing" =>
            /\ currentLine \in DOMAIN lineState
            /\ lineState[currentLine] = currentMoveIdx)
    /\ [][pc = "viewing" /\ pc' = "viewing" =>
            /\ DOMAIN lineState' = DOMAIN lineState \cup {currentLine'}
            /\ \A line \in DOMAIN lineState \ {currentLine'} :
                 lineState'[line] = lineState[line]]_vars
    /\ [][Ran("variationSelect") =>
            currentMoveIdx' = IF currentLine' \in DOMAIN lineState
                              THEN lineState[currentLine']
                              ELSE 0]_vars
    /\ [][Ran("btnParent") /\ IsSome(lines[currentLine].parent) =>
            LET parentInfo == Val(lines[currentLine].parent)
            IN  /\ currentLine' = parentInfo.line
                /\ currentMoveIdx' = IF parentInfo.line \in DOMAIN lineState
                                     THEN lineState[parentInfo.line]
                                     ELSE parentInfo.anchorMoveCount]_vars

\* C23, witness: switchToVariation has put the cursor past the start of a
\* variation, where it was when it last left that variation.
C23_Witness ==
    /\ pc = "viewing"
    /\ lastOp.op = "variationSelect"
    /\ currentLine # RootLine
    /\ currentMoveIdx >= 1

\* A goToParent has put the cursor on a line that is not the root line, at
\* the anchor point of the line it left.
C23_ParentEnteredAtAnchor ==
    /\ pc = "viewing"
    /\ lastOp.op = "btnParent"
    /\ currentLine # RootLine
    /\ currentMoveIdx >= 1

\* This step is the rest of renderKif after parseKif.
Renders == pc = "parsed" /\ pc' = "viewing"

\* C24: with a start-move directive for a number that some line has, the
\* viewer starts on the first such line in depth-first order, right after
\* its first move of that number; with a directive for a number that no line
\* has it starts at index 0 of the root line with the starting layout, and a
\* number from 1 on is reported as not found.
C24_DirectiveSetsInitialCursor ==
    [][Renders /\ IsSome(requestedInitialMove) =>
         LET n == Val(requestedInitialMove)
             line == FirstLineWith(DepthFirst(RootLine), n)
         IN  IF NumberExists(n)
             THEN /\ currentLine' = line
                  /\ currentMoveIdx' = FindNumber(lines[line].moves, n)
             ELSE /\ currentLine' = RootLine
                  /\ currentMoveIdx' = 0
                  /\ board' = initialBoard
                  /\ hands' = [B |-> <<>>, W |-> <<>>]
                  /\ n >= 1 => lastOp'.ret = "false"]_vars

\* C24, witness: the viewer has started in a variation, after its second
\* move, which the directive names and the root line does not have.
C24_Witness ==
    /\ pc = "viewing"
    /\ lastOp = [op |-> "render", ret |-> "true"]
    /\ requestedInitialMove = Some(3)
    /\ currentLine # RootLine
    /\ currentMoveIdx = 2
    /\ FindNumber(lines[RootLine].moves, 3) = 0

\* The viewer has started at the first position and reported the number of
\* the directive as not found.
C24_MissReported ==
    /\ pc = "viewing"
    /\ lastOp = [op |-> "render", ret |-> "false"]
    /\ requestedInitialMove = Some(4)
    /\ currentLine = RootLine
    /\ currentMoveIdx = 0

\* The ids of the nodes of tree whose jumpRef is the move at `ref'.
NodesOf(tree, ref) ==
    {id \in 0..(Len(tree.nodes) - 1) :
       /\ NodeAt(tree.nodes, id).jumpRef.line = ref[1]
       /\ NodeAt(tree.nodes, id).jumpRef.moveIndex = ref[2] - 1}
NodeOf(tree, ref) == CHOOSE id \in NodesOf(tree, ref) : TRUE

\* The node under which the first move of `line' hangs: the synthetic root
\* for the root line, the node of the anchor move for a variation of a move,
\* the entry point of the owning line for a lead variation.
RECURSIVE EntryPoint(_, _)
EntryPoint(tree, line) ==
    IF ~IsSome(lines[line].parent) THEN tree.rootId
    ELSE LET parent == Val(lines[line].parent)
         IN  IF parent.anchorMoveCount >= 1
             THEN NodeOf(tree, <<parent.line, parent.anchorMoveCount>>)
             ELSE EntryPoint(tree, parent.line)

\* How often id is among the childIds of the node `of'.
TimesChildOf(tree, id, of) ==
    Cardinality({j \in 1..Len(NodeAt(tree.nodes, of).childIds) :
                   NodeAt(tree.nodes, of).childIds[j] = id})

\* C25: the tree of buildMoveTree has the synthetic root, of ply 0 and with
\* no parent, and one node for every move of every line and no other; the
\* node of a move has the move's number as ply and hangs under the node of
\* the move before it in its line, the node of the first move of a line
\* under the entry point of the line; every node but the root is once among
\* the childIds of its parent and not among those of any other node, and
\* the root is among no childIds.
C25_MoveTreeMirrorsLines ==
    LET tree == buildMoveTree
        ids == 0..(Len(tree.nodes) - 1)
    IN  /\ tree.rootId = 0
        /\ NodeAt(tree.nodes, 0).ply = 0
        /\ NodeAt(tree.nodes, 0).parentId = None
        /\ NodeAt(tree.nodes, 0).jumpRef.moveIndex = -1
        /\ Len(tree.nodes) = 1 + Cardinality(Refs(lines))
        /\ \A ref \in Refs(lines) :
             /\ Cardinality(NodesOf(tree, ref)) = 1
             /\ NodeAt(tree.nodes, NodeOf(tree, ref)).ply = MoveAt(ref).n
             /\ NodeAt(tree.nodes, NodeOf(tree, ref)).parentId =
                  Some(IF ref[2] > 1
                       THEN NodeOf(tree, <<ref[1], ref[2] - 1>>)
                       ELSE EntryPoint(tree, ref[1]))
        /\ \A id \in ids \ {0}, of \in ids :
             TimesChildOf(tree, id, of) =
               IF Some(of) = NodeAt(tree.nodes, id).parentId THEN 1 ELSE 0
        /\ \A of \in ids : TimesChildOf(tree, 0, of) = 0

\* C25, witness: the tree is built for a parsed record with a lead
\* variation, a variation of a move and a variation inside a variation, each
\* with a move.
C25_Witness ==
    /\ pc = "parsed"
    /\ Len(buildMoveTree.nodes) >= 7
    /\ \E j \in 1..Len(lines[RootLine].leadVariations) :
         lines[lines[RootLine].leadVariations[j]].moves # <<>>
    /\ \E line \in 2..Len(lines) :
         /\ lines[line].moves # <<>>
         /\ Val(lines[line].parent).line # RootLine
         /\ Val(lines[line].parent).anchorMoveCount >= 1

\* The contexts of the stack whose line has a move numbered n.
ContextsWith(n) ==
    {c \in 1..Len(contextStack) :
       \E j \in 1..Len(lines[contextStack[c].line].moves) :
         lines[contextStack[c].line].moves[j].n = n}

\* C26: a variation marker for move N > 1 whose target N - 1 is in a line of
\* the context stack adds a line with startMoveNumber N and no moves to the
\* variations of the first move numbered N - 1 of the innermost such
\* context's line, with that line and the move's place as parent, and
\* changes nothing else of the tree; the stack is cut down to that context
\* and gets a context for the new line, with the anchor as previous move;
\* and a move line that follows is appended to the line of the innermost
\* context and changes no other line.
C26_MarkerAnchorsInInnermostContext ==
    /\ [][\A n \in 2..MaxMoveNumber :
            (ReadsVariationMarker(n) /\ ContextsWith(n - 1) # {}) =>
              LET top == CHOOSE c \in ContextsWith(n - 1) :
                           \A d \in ContextsWith(n - 1) : d <= c
                  anchorLine == contextStack[top].line
                  places == {j \in 1..Len(lines[anchorLine].moves) :
                               lines[anchorLine].moves[j].n = n - 1}
                  place == CHOOSE j \in places : \A k \in places : j <= k
                  id == Len(lines) + 1
              IN  /\ pc' = "parsing"
                  /\ Len(lines') = id
                  /\ lines'[id] =
                       [startMoveNumber |-> n, moves |-> <<>>,
                        parent |-> Some([line |-> anchorLine,
                                         anchorMoveCount |-> place]),
                        leadVariations |-> <<>>]
                  /\ lines'[anchorLine] =
                       [lines[anchorLine] EXCEPT
                          !.moves[place].variations = Append(@, id)]
                  /\ \A l \in 1..Len(lines) :
                       l # anchorLine => lines'[l] = lines[l]
                  /\ contextStack' =
                       Append(SubSeq(contextStack, 1, top),
                              [line |-> id,
                               prevMove |-> Some(<<anchorLine, place>>)])]_vars
    /\ [][ReadsMove =>
            LET line == contextStack[Len(contextStack)].line
            IN  /\ lines' = [lines EXCEPT
                               ![line].moves =
                                  Append(@, lines'[line].moves[Len(@) + 1])]
                /\ contextStack'[Len(contextStack')].line = line]_vars

\* C26, witness: root line and first variation both have a move 1; the
\* marker for move 2 has anchored the new line in the variation, and the move
\* line behind it went to the new line.
C26_Witness ==
    /\ lastOp = [op |-> "parseLine", ret |-> "move"]
    /\ Len(lines) = 3
    /\ Len(contextStack) = 3
    /\ FindNumber(lines[RootLine].moves, 1) > 0
    /\ lines[3].parent = Some([line |-> 2, anchorMoveCount |-> 1])
    /\ lines[2].moves[1].n = 1
    /\ Len(lines[3].moves) = 1

\* The hand without its first entry of kind (the hand when it has none).
WithoutFirst(hand, kind) ==
    LET places == {i \in 1..Len(hand) : hand[i] = kind}
    IN  IF places = {} THEN hand
        ELSE LET first == CHOOSE i \in places : \A j \in places : i <= j
             IN  SubSeq(hand, 1, first - 1) \o SubSeq(hand, first + 1, Len(hand))

\* The replay of mv = MoveAt(ref) on the position rs, where it lands on a
\* piece of the other side, does not raise, leaves the other side's hand as
\* it is and appends the demoted kind of that piece, and nothing else, to the
\* hand of the side to move (from which a drop has taken its piece first).
CaptureGoesToActingHand(rs, ref) ==
    LET mv == MoveAt(ref)
        side == SideOf(mv)
        after == ReplayMove(rs, ref)
        before == IF mv.drop
                  THEN WithoutFirst(rs.hands[side], demoteKind(mv.kind))
                  ELSE rs.hands[side]
    IN  /\ ~after.threw
        /\ after.hands[Opponent(side)] = rs.hands[Opponent(side)]
        /\ after.hands[side] =
             Append(before, demoteKind(TargetOf(rs, mv).kind))

\* C27: in every replay the viewer makes, a move that is carried out and
\* lands on a piece of the side that is not to move (the side to move being
\* B for an odd move number, W for an even one) appends the demoted kind of
\* that piece to the hand of the side to move and adds nothing to the other
\* hand; and every entry of the two hands is an unpromoted kind.
C27_CaptureFillsActingHand ==
    pc = "viewing" =>
      /\ \A side \in Sides : \A i \in 1..Len(hands[side]) :
           hands[side][i] \in UnpromotedKinds
      /\ LET sequence == gatherMoves(currentLine, currentMoveIdx)
         IN  \A i \in 1..Len(sequence) :
               LET rs == Before(sequence, i)
                   mv == MoveAt(sequence[i])
               IN  (/\ ~rs.threw
                    /\ Carried(rs, mv)
                    /\ TargetOf(rs, mv) # NoPiece
                    /\ TargetOf(rs, mv).side # SideOf(mv)) =>
                     CaptureGoesToActingHand(rs, sequence[i])

\* C27, witness: the bishop took the bishop on 22 and promoted, the silver
\* took the promoted bishop, and the second side's hand holds a bishop.
C27_Witness ==
    /\ pc = "viewing"
    /\ lastOp.ret # "throw"
    /\ currentLine = RootLine
    /\ currentMoveIdx = 2
    /\ MoveAt(<<RootLine, 1>>).promoted
    /\ MoveAt(<<RootLine, 1>>).to = [f |-> 2, r |-> 2]
    /\ board[2][2] = [side |-> "W", kind |-> "GI"]
    /\ hands = [B |-> <<"KA">>, W |-> <<"KA">>]

\* The bishop taken on 22 was dropped on the pawn on 33 and took it.
C27_DropCaptures ==
    /\ pc = "viewing"
    /\ hands = [B |-> <<"FU">>, W |-> <<>>]
    /\ board[3][3] = [side |-> "B", kind |-> "KA"]

\* C28: in every replay the viewer makes, a drop leaves on its destination a
\* piece of the side to move whose kind is the demoted form of the kind
\* recorded on the move.
C28_DropPlacesBaseKind ==
    pc = "viewing" =>
      LET sequence == gatherMoves(currentLine, currentMoveIdx)
      IN  \A i \in 1..Len(sequence) :
            LET rs == Before(sequence, i)
                mv == MoveAt(sequence[i])
            IN  (mv.drop /\ ~rs.threw) =>
                  CellAt(ReplayMove(rs, sequence[i]).board, mv.to) =
                    [side |-> SideOf(mv), kind |-> demoteKind(mv.kind)]

\* C29: after an applyCurrent that came to its end, when
\* gatherMoves(currentLine, currentMoveIdx) is not empty, latestMove is the
\* last move of that sequence and lastTo is its destination.
C29_LatestMoveIsLastOfSequence ==
    (pc = "viewing" /\ lastOp.ret # "throw") =>
      LET sequence == gatherMoves(currentLine, currentMoveIdx)
      IN  sequence # <<>> =>
            /\ latestMove = Some(sequence[Len(sequence)])
            /\ lastTo = Some(MoveAt(sequence[Len(sequence)]).to)

\* The square holds no piece on the board b; a square off the board holds
\* none.
HoldsNoPiece(b, sq) ==
    \/ sq.r \notin Coords
    \/ sq.f \notin Coords
    \/ b[sq.r][sq.f] = NoPiece

\* C30: in every replay the viewer makes, a board move whose source square
\* holds no piece leaves board and hands as they are and does not end the
\* replay, so that the moves behind it are replayed on the same position.
C30_EmptySourceIsSkipped ==
    pc = "viewing" =>
      LET sequence == gatherMoves(currentLine, currentMoveIdx)
      IN  \A i \in 1..Len(sequence) :
            LET rs == Before(sequence, i)
                mv == MoveAt(sequence[i])
                after == ReplayMove(rs, sequence[i])
            IN  (/\ ~rs.threw
                 /\ ~mv.drop
                 /\ IsSome(mv.from)
                 /\ HoldsNoPiece(rs.board, Val(mv.from))) =>
                  /\ ~after.threw
                  /\ after.board = rs.board
                  /\ after.hands = rs.hands

\* The replay of the board move mv = MoveAt(ref) on the position rs, where
\* its source square holds a piece, does not raise and leaves on the
\* destination a piece with the side of the piece lifted and the kind
\* recorded on the move.
LiftedPieceLands(rs, ref) ==
    LET mv == MoveAt(ref)
        after == ReplayMove(rs, ref)
    IN  /\ ~after.threw
        /\ CellAt(after.board, mv.to) =
             [side |-> CellAt(rs.board, Val(mv.from)).side, kind |-> mv.kind]

\* The replay has reached the board move at place i of sequence, whose
\* source square holds a piece.
LiftsPiece(sequence, i) ==
    LET rs == Before(sequence, i)
        mv == MoveAt(sequence[i])
    IN  ~rs.threw /\ ~mv.drop /\ Carried(rs, mv)

\* C31 as stated: in every replay the viewer makes, a board move whose
\* source square holds a piece leaves the source square empty and, on the
\* destination, a piece with the side of the piece lifted and the kind
\* recorded on the move.
C31_SourceEmptiedPieceKeepsSide ==
    pc = "viewing" =>
      LET sequence == gatherMoves(currentLine, currentMoveIdx)
      IN  \A i \in 1..Len(sequence) :
            LiftsPiece(sequence, i) =>
              /\ LiftedPieceLands(Before(sequence, i), sequence[i])
              /\ CellAt(ReplayMove(Before(sequence, i), sequence[i]).board,
                        Val(MoveAt(sequence[i]).from)) = NoPiece

\* C31, amended: the source square is left empty unless it is the
\* destination of the move, where the piece then stands again.
C31_SourceEmptiedUnlessDestination ==
    pc = "viewing" =>
      LET sequence == gatherMoves(currentLine, currentMoveIdx)
      IN  \A i \in 1..Len(sequence) :
            LiftsPiece(sequence, i) =>
              /\ LiftedPieceLands(Before(sequence, i), sequence[i])
              /\ Val(MoveAt(sequence[i]).from) # MoveAt(sequence[i]).to =>
                   CellAt(ReplayMove(Before(sequence, i), sequence[i]).board,
                          Val(MoveAt(sequence[i]).from)) = NoPiece

\* C31, witness: the first move, of the first side, has lifted the second
\* side's pawn from 33, and the pawn on 34 is still of the second side.
C31_Witness ==
    /\ pc = "viewing"
    /\ currentLine = RootLine
    /\ currentMoveIdx = 1
    /\ MoveAt(<<RootLine, 1>>).n = 1
    /\ MoveAt(<<RootLine, 1>>).from = Some([f |-> 3, r |-> 3])
    /\ board[3][3] = NoPiece
    /\ board[4][3] = [side |-> "W", kind |-> "FU"]

\* The pawn lifted from 77 stands on 76 as a bishop, as the move is written.
C31_KindAsWritten ==
    /\ pc = "viewing"
    /\ board[7][7] = NoPiece
    /\ board[6][7] = [side |-> "B", kind |-> "KA"]

\* The suffix a piece token ends with.
SuffixOf(raw) ==
    IF EndsWith(raw, <<"NOT", "NARI">>) THEN "declines"
    ELSE IF EndsWith(raw, <<"NARI">>) THEN "promotes"
    ELSE "none"

\* The kind a piece token names before its suffix, direction glyphs aside.
WrittenKind(raw) ==
    LET suffix == SuffixOf(raw)
        name == IF suffix = "declines" THEN SubSeq(raw, 1, Len(raw) - 2)
                ELSE IF suffix = "promotes" THEN SubSeq(raw, 1, Len(raw) - 1)
                ELSE raw
    IN  PieceKindOf(SelectSeq(name, LAMBDA c : c \notin PIECE_DIRECTIONS))

\* The kinds that have a promoted form.
Promotable == {"FU", "KY", "KE", "GI", "KA", "HI"}

\* The line read names no piece anywhere.
ReadsLineWithoutPiece ==
    /\ ReadsLine
    /\ \A i \in 1..Len(Head(input)) : PieceNameLen(Head(input), i) = 0

\* C32: no move of the tree is both promoted and promotionDeclined; a move
\* is promoted only when its piece token ends with the promotion suffix on
\* a kind that has a promoted form, and its kind is then the promoted form of
\* the kind written; a promotion suffix on a kind without a promoted form, and
\* a decline suffix, leave the kind as written and promoted unset; a line
\* that names no piece adds no move.
C32_PromotionFlagsFollowSuffix ==
    /\ [](\A ref \in Refs(lines) :
            LET mv == MoveAt(ref)
                suffix == SuffixOf(mv.rawKind)
                written == WrittenKind(mv.rawKind)
            IN  /\ ~(mv.promoted /\ mv.promotionDeclined)
                /\ mv.promoted =>
                     /\ suffix = "promotes"
                     /\ written \in Promotable
                     /\ mv.kind = promoteKind(written)
                /\ (suffix = "promotes" /\ written \notin Promotable) =>
                     mv.kind = written /\ ~mv.promoted
                /\ suffix = "declines" =>
                     mv.kind = written /\ ~mv.promoted)
    /\ [][ReadsLineWithoutPiece => Refs(lines') = Refs(lines)]_vars

\* C32, witness: the tree holds a gold written with the promotion suffix,
\* kept a gold and not promoted, and a line that names no piece was read
\* after a move that declines promotion.
C32_Witness ==
    \/ \E ref \in Refs(lines) :
         /\ MoveAt(ref).rawKind = <<"KI", "MIGI", "NARI">>
         /\ MoveAt(ref).kind = "KI"
         /\ ~MoveAt(ref).promoted
         /\ pc = "viewing"
    \/ /\ lastOp = [op |-> "parseLine", ret |-> "unmatched"]
       /\ \E ref \in Refs(lines) :
            /\ MoveAt(ref).promotionDeclined
            /\ MoveAt(ref).kind = "FU"

\* C33: a goToMoveNumber call that returns false leaves the autoplay status
\* as it was: when autoplay was running before the call it is running
\* afterwards, with its interval armed.
C33_FailedJumpKeepsAutoplay ==
    [][(Ran("goToMoveNumber") /\ lastOp'.ret = "false") =>
         /\ isPlaying' = isPlaying
         /\ isPlaying =>
              /\ autoPlayIntervalId' = autoPlayIntervalId
              /\ autoPlayIntervalId' # NoTimer
              /\ autoPlayIntervalId' \in timers']_vars

\* A goToMoveNumber call that returns false for a number that is negative or
\* not finite leaves the autoplay status as it was.
C33_RejectedNumberKeepsAutoplay ==
    [][\A arg \in GoToArguments :
         (IsGoToMoveNumber(arg[1], arg[2]) /\ (~arg[1] \/ arg[2] < 0)) =>
           /\ lastOp'.ret = "false"
           /\ UNCHANGED <<isPlaying, autoPlayIntervalId, timers>>]_vars

\* The line read is not blank and does not start with '#' or '----'.
ReadsContentLine ==
    /\ ReadsLine
    /\ LET trimmed == Trim(Head(input))
       IN  /\ Len(trimmed) > 0
           /\ ~StartsWith(trimmed, <<"#">>)
           /\ ~StartsWith(trimmed, <<"-", "-", "-", "-">>)

\* The classes whose test the line matches, each test taken on its own.
ClassesMatching(raw) ==
    LET trimmed == Trim(raw)
    IN  {class \in {"variation", "header", "comment", "move"} :
           \/ class = "variation" /\ IsSome(MatchVariation(trimmed))
           \/ class = "header" /\ Includes(trimmed, "SEP")
           \/ class = "comment" /\ StartsWith(trimmed, <<"*">>)
           \/ class = "move" /\ MatchMove(TrimEnd(raw)).matched}

\* The first class of the order of the tests that the line matches, "none"
\* when it matches no test.
FirstClass(raw) ==
    LET order == <<"variation", "header", "comment", "move">>
        matching == {i \in 1..4 : order[i] \in ClassesMatching(raw)}
    IN  IF matching = {} THEN "none"
        ELSE order[CHOOSE i \in matching : \A j \in matching : i <= j]

\* The comments of the moves of the tree.
CommentsOf(ls) == [ref \in Refs(ls) |-> ls[ref[1]].moves[ref[2]].comment]

ReadsCommentBeforeFirstMove ==
    /\ ReadsLine
    /\ LineClass(Head(input)) = "comment"
    /\ Len(contextStack) > 1
    /\ lines[contextStack[Len(contextStack)].line].moves = <<>>

\* C35: a comment line read after a variation marker and before the first
\* move of the variation changes the comment of no move.
C35_CommentBeforeFirstMoveIsDropped ==
    [][ReadsCommentBeforeFirstMove => lines' = lines]_vars

\* A comment line read before the first move of a variation that is anchored
\* at no move changes the comment of no move.
C35_CommentOfUnanchoredVariationIsDropped ==
    [][(/\ ReadsCommentBeforeFirstMove
        /\ lines[contextStack[Len(contextStack)].line].parent
             = Some([line |-> RootLine, anchorMoveCount |-> 0]))
         => lines' = lines]_vars

\* The closure as the next handler finds it: an exception that left the
\* previous handler is gone.
NextHandler(v) == [v EXCEPT !.threw = FALSE]

\* The variations offered at the cursor that hang on the line of the cursor.
OfferedHere ==
    {availableVariations[idx] : idx \in 1..Len(availableVariations)}
      \cap {line \in 1..Len(lines) :
              /\ IsSome(lines[line].parent)
              /\ Val(lines[line].parent).line = currentLine}

\* C36: from every cursor, switchToVariation to a variation offered for the
\* line of the cursor and then goToParent ends on the same line and index,
\* with the same board and hands; from every cursor on a line that is not
\* the root line, goToParent and then switchToVariation to the line left
\* ends on the same line and index.
C36_LineSwitchRoundTrips ==
    pc = "viewing" =>
      /\ \A variation \in OfferedHere :
           LET there == switchToVariation(View, variation)
               back == goToParent(NextHandler(there))
           IN  /\ back.currentLine = currentLine
               /\ back.currentMoveIdx = currentMoveIdx
               /\ back.board = board
               /\ back.hands = hands
      /\ IsSome(lines[currentLine].parent) =>
           LET up == goToParent(View)
               down == switchToVariation(NextHandler(up), currentLine)
           IN  /\ down.currentLine = currentLine
               /\ down.currentMoveIdx = currentMoveIdx

\* C36, witness: goToParent has brought the cursor back from a variation
\* that was visited to a place of the parent line that is neither the anchor
\* point of the variation nor the end of the line.
C36_Witness ==
    /\ pc = "viewing"
    /\ lastOp.op = "btnParent"
    /\ \E variation \in OfferedHere :
         /\ variation \in DOMAIN lineState
         /\ currentMoveIdx # Val(lines[variation].parent).anchorMoveCount
         /\ currentMoveIdx < Len(lines[currentLine].moves)

\* The cursor is on a variation, past its start, on which switchToVariation
\* has put it.
C36_BackInVariation ==
    /\ pc = "viewing"
    /\ lastOp.op = "variationSelect"
    /\ IsSome(lines[currentLine].parent)
    /\ currentMoveIdx > 0
    /\ Val(lines[currentLine].parent).line \in DOMAIN lineState

\* The moves of the nodes on the path from the synthetic root, left out, down
\* to the node id, as places <<line, index>>; at most `steps' parent links
\* are followed.
RECURSIVE PathTo(_, _, _)
PathTo(tree, id, steps) ==
    LET node == NodeAt(tree.nodes, id)
    IN  IF id = tree.rootId \/ steps = 0 \/ ~IsSome(node.parentId) THEN <<>>
        ELSE Append(PathTo(tree, Val(node.parentId), steps - 1),
                    <<node.jumpRef.line, node.jumpRef.moveIndex + 1>>)

\* C37: the jumpRef of every node of the move tree but the synthetic root
\* names a move of its line, whose number is the node's ply and the
\* jumpRef's moveNumber, and the moves on the path from the synthetic root
\* down to the node are gatherMoves(jumpRef.line, jumpRef.moveIndex + 1), in
\* order.
C37_TreePathIsGatheredMoves ==
    LET tree == buildMoveTree
    IN  \A id \in 1..(Len(tree.nodes) - 1) :
          LET node == NodeAt(tree.nodes, id)
              ref == <<node.jumpRef.line, node.jumpRef.moveIndex + 1>>
          IN  /\ ref \in Refs(lines)
              /\ node.ply = MoveAt(ref).n
              /\ node.jumpRef.moveNumber = MoveAt(ref).n
              /\ PathTo(tree, id, Len(tree.nodes)) =
                   gatherMoves(node.jumpRef.line, node.jumpRef.moveIndex + 1)

\* C37, witness: a click on the node of a move of a variation inside a
\* variation of a move has put the cursor on that move, and the path to the
\* node crosses three lines.
C37_Witness ==
    /\ pc = "viewing"
    /\ lastOp.op = "treeClick"
    /\ currentMoveIdx >= 1
    /\ IsSome(lines[currentLine].parent)
    /\ IsSome(lines[Val(lines[currentLine].parent).line].parent)
    /\ Val(lines[currentLine].parent).anchorMoveCount >= 1
    /\ LET tree == buildMoveTree
           path == PathTo(tree, NodeOf(tree, <<currentLine, currentMoveIdx>>),
                          Len(tree.nodes))
       IN  Cardinality({path[i][1] : i \in 1..Len(path)}) = 3

\* This step is one of the handlers that choose a position: step first, back,
\* forward or last, a goToMoveNumber that returns true, a jumpTo from a node
\* of the tree, switchToVariation, or goToParent on a line with a parent.
ChoosesPosition ==
    \/ Ran("btnFirst")
    \/ Ran("btnPrev")
    \/ Ran("btnNext")
    \/ Ran("btnLast")
    \/ Ran("goToMoveNumber") /\ lastOp'.ret = "true"
    \/ Ran("treeClick")
    \/ Ran("variationSelect")
    \/ Ran("btnParent") /\ IsSome(lines[currentLine].parent)

\* C38: every handler that chooses a position leaves autoplay stopped, with
\* isPlaying false and no interval armed, so that no tick can follow it; and
\* the line of the cursor does not change in a step that autoplay is running
\* before and after.
C38_NavigationStopsAutoplay ==
    /\ [][ChoosesPosition =>
            /\ ~isPlaying'
            /\ autoPlayIntervalId' = NoTimer
            /\ timers' = {}]_vars
    /\ [][(pc = "viewing" /\ isPlaying /\ isPlaying') =>
            currentLine' = currentLine]_vars

\* C38, witness: autoplay is running in the middle of a line, and a click on
\* a node of the tree from here puts the cursor on another line and leaves
\* autoplay stopped.
C38_Witness ==
    /\ pc = "viewing"
    /\ isPlaying
    /\ autoPlayIntervalId \in timers
    /\ currentMoveIdx >= 1
    /\ currentMoveIdx < Len(lines[currentLine].moves)
    /\ ENABLED (TreeClick /\ currentLine' # currentLine /\ ~isPlaying')

\* A variation marker was processed: the tree has a line besides the root
\* line.
MarkerProcessed == Len(lines) > 1

\* C39: once a variation marker was processed, the innermost context is not
\* that of the root line and no line read adds a move to the root line;
\* before that, an accepted move line adds its move at the end of the root
\* line and every other line leaves the number of its moves as it is: the
\* root line holds the accepted move lines before the first marker, in the
\* order of the text.
C39_RootLineEndsAtFirstMarker ==
    /\ [](MarkerProcessed =>
            /\ Len(contextStack) >= 2
            /\ contextStack[Len(contextStack)].line # RootLine)
    /\ [][(ReadsLine /\ MarkerProcessed) =>
            Len(lines'[RootLine].moves) = Len(lines[RootLine].moves)]_vars
    /\ [][(ReadsLine /\ ~MarkerProcessed) =>
            IF ReadsMove
            THEN lines'[RootLine].moves =
                   Append(lines[RootLine].moves,
                          Val(DecodeMove(MatchMove(TrimEnd(Head(input))),
                                         contextStack[Len(contextStack)])))
            ELSE Len(lines'[RootLine].moves) = Len(lines[RootLine].moves)]_vars

\* C39, witness: a move line was read into the second variation of a text
\* whose root line has a move, the first variation having a move as well.
C39_Witness ==
    /\ lastOp = [op |-> "parseLine", ret |-> "move"]
    /\ Len(lines) = 3
    /\ contextStack[Len(contextStack)].line = 3
    /\ Len(lines[RootLine].moves) = 1
    /\ Len(lines[2].moves) >= 1
    /\ Len(lines[3].moves) >= 1

====
